---- MODULE Spec2Model ----
(***************************************************************************)
(* Model of the stock operations of the distributed inventory system:      *)
(* InventoryService (AddStock, RemoveStock, ReserveStock, UnreserveStock)  *)
(* running concurrently over the PostgreSQL repositories.  Every store     *)
(* access (a single SQL statement) is one atomic step; the service code    *)
(* between two store accesses is folded into the step that precedes it.    *)
(***************************************************************************)
EXTENDS Integers, Sequences, FiniteSets, TLC

\* ---------------------------------------------------------------- bounds
NumProcs == 2      \* concurrent callers of the service
MaxCalls == 2      \* service calls started in one behaviour
MaxQty   == 2      \* largest quantity argument of a call
MaxInit  == 1      \* largest initial quantity of the item
MaxRaceInit == 3   \* largest initial quantity of the item two calls race on
MaxAdminCalls == 2 \* product lifecycle calls started in one behaviour
IntBits == 4       \* width of the machine integers (int64, scaled down)
MaxCreates == 1    \* products created in one behaviour

Procs == 1..NumProcs

\* product ids used by callers: "p1" has been created, "p2" never was
ProductIDs == {"p1", "p2"}
\* quantity arguments: positive ones, zero and a negative one
Quantities == -1..MaxQty
References == {"ORDER-001"}
OpKinds    == {"AddStock", "RemoveStock", "ReserveStock", "UnreserveStock"}

\* callers of the product lifecycle operations (CreateProduct, DeleteProduct,
\* GetProduct, GetInventory)
Admins == {"a1", "a2"}

\* the ids uuid.New() gives to the products created and to their items
ProductIDPool == <<"p2", "p3", "p4">>
InventoryIDs  == [id \in {"p1", "p2", "p3", "p4"} |->
                    CASE id = "p1" -> "inv-p1"
                      [] id = "p2" -> "inv-p2"
                      [] id = "p3" -> "inv-p3"
                      [] id = "p4" -> "inv-p4"]

\* arguments of CreateProduct
ProductInputs ==
    {[name |-> "Widget", sku |-> "SKU-1", price |-> 10],
     [name |-> "",       sku |-> "SKU-1", price |-> 10],
     [name |-> "Widget", sku |-> "",      price |-> 10],
     [name |-> "Widget", sku |-> "SKU-1", price |-> -1]}
Locations == {"", "WH-1"}
InitialQuantities == -1..MaxInit
\* limit and offset arguments of ListTransactions: from a negative one to
\* more than a product has Transactions
Limits  == -1..(MaxCalls + 1)
Offsets == -1..MaxCalls

VARIABLES
    products,      \* table products: set of product ids
    skus,          \* column sku of table products: product id -> SKU
    inventory,     \* table inventory: inventory id -> row
    transactions,  \* table transactions, in creation order
    pc,            \* per caller: "idle", "read", "update", "record"
    op,            \* per caller: the call in progress
    item,          \* per caller: the InventoryItem read by GetByProductID
    calls,         \* number of calls started
    ret,           \* observer: the error returned in the step just taken
    okReturns,     \* history: number of stock calls that returned nil
    errReturns,    \* history: number of stock calls that returned an error
    initial,       \* history: inventory id -> quantity at creation
    sums,          \* history: inventory id -> totals of applied updates
    unrecorded,    \* history: inventory id -> applied updates whose insert failed
    adm,           \* per lifecycle caller: position and locals of its call
    adminCalls,    \* number of lifecycle calls started
    created,       \* number of product rows inserted so far
    deleted,       \* history: product ids whose DeleteProduct succeeded
    got,           \* observer: the values returned in the step just taken
    request,       \* the HTTP requests being served, each with its caller
    response       \* observer: the HTTP status written in the step just taken

vars == <<products, skus, inventory, transactions, pc, op, item, calls, ret,
          okReturns, errReturns, initial, sums, unrecorded,
          adm, adminCalls, created, deleted, got, request, response>>

http == <<request, response>>

life == <<adm, adminCalls, created, deleted>>

store == <<products, skus, inventory, transactions>>

history == <<initial, sums, unrecorded>>

\* ---------------------------------------------------------------- errors
\* An error is the chain of messages built by fmt.Errorf("...: %w", err).
Nil     == <<>>
NoItem  == [id |-> "", product_id |-> "", quantity |-> 0, reserved |-> 0,
            location |-> ""]
NoOp    == [kind |-> "none", productID |-> "", quantity |-> 0, reference |-> ""]
NoRet   == <<"no return">>
NoProduct == [id |-> ""]
NoGot   == [kind |-> "none", productID |-> "", product |-> NoProduct, inventory |-> NoItem,
            transactions |-> <<>>, limit |-> 0, offset |-> 0, available |-> 0]
NoInput == [name |-> "", sku |-> "", price |-> 0]
NoAdmin == [pc |-> "idle", product |-> NoInput, found |-> NoProduct, productID |-> "",
            location |-> "", quantity |-> 0, err |-> Nil]

NoRequest == [method |-> "", path |-> <<>>, id |-> "", decodes |-> FALSE,
              quantity |-> 0, product |-> NoInput, location |-> ""]
NoResponse == 0

ErrQuantityMustBePositive == <<"quantity must be positive">>
ErrItemNotFound           == <<"inventory item not found">>
ErrGetItemFailed          == <<"failed to get inventory item", "store unavailable">>
ErrZeroRows               == <<"quantity update failed: invalid operation or item not found">>
ErrExecUpdateFailed       == <<"failed to update quantity", "store unavailable">>
ErrCreateTransaction      == <<"failed to create transaction", "store unavailable">>
ErrTransactionForeignKey  == <<"failed to create transaction", "foreign key violation">>
ErrProductNotFound        == <<"product not found">>
ErrCreateProductFailed    == <<"failed to create product", "store unavailable">>
ErrCreateProductDuplicate == <<"failed to create product", "duplicate key value">>
ErrUpdateProductDuplicate == <<"failed to update product", "duplicate key value">>
ErrListNegative           == <<"failed to list transactions", "negative LIMIT or OFFSET">>
ErrListFailed             == <<"failed to list transactions", "store unavailable">>
ErrCreateItemFailed       == <<"failed to create inventory item", "store unavailable">>
ErrCreateItemConstraint   == <<"failed to create inventory item", "constraint violation">>

Wrap(msg, err) == <<msg>> \o err

\* ------------------------------------------------------------ domain
\* the machine integers
IntMin == -(2 ^ (IntBits - 1))
IntMax == 2 ^ (IntBits - 1) - 1

\* the int64 a machine operation yields for the integer x: two's complement
\* wrap-around
Int64(x) == ((x - IntMin) % (2 ^ IntBits)) + IntMin

\* InventoryItem.AvailableQuantity
AvailableQuantity(i) ==
    LET available == Int64(i.quantity - i.reserved)
    IN  IF available < 0 THEN 0 ELSE available

\* Transaction.Validate
ValidTypes == {"IN", "OUT", "RETURN", "RESERVE", "UNRESERVE"}

\* mutant of TransactionValidate: a quantity of zero is accepted
TransactionValidateZero(t) ==
    IF t.inventory_id = "" THEN <<"inventory_id cannot be empty">>
    ELSE IF t.product_id = "" THEN <<"product_id cannot be empty">>
    ELSE IF t.quantity < 0 THEN <<"quantity must be positive">>
    ELSE IF t.type \notin ValidTypes THEN <<"invalid transaction type">>
    ELSE <<>>

TransactionValidate(t) ==
    IF t.inventory_id = "" THEN <<"inventory_id cannot be empty">>
    ELSE IF t.product_id = "" THEN <<"product_id cannot be empty">>
    ELSE IF t.quantity <= 0 THEN <<"quantity must be positive">>
    ELSE IF t.type \notin ValidTypes THEN <<"invalid transaction type">>
    ELSE Nil

\* mutant of ProductValidate: a negative price is accepted
ProductValidateAnyPrice(product) ==
    IF product.name = "" THEN <<"product name cannot be empty">>
    ELSE IF product.sku = "" THEN <<"product SKU cannot be empty">>
    ELSE Nil

\* Product.Validate
ProductValidate(product) ==
    IF product.name = "" THEN <<"product name cannot be empty">>
    ELSE IF product.sku = "" THEN <<"product SKU cannot be empty">>
    ELSE IF product.price < 0 THEN <<"product price cannot be negative">>
    ELSE Nil

\* mutant of InventoryItemValidate: reserved is not compared with quantity
InventoryItemValidateNoCeiling(i) ==
    IF i.product_id = "" THEN <<"product_id cannot be empty">>
    ELSE IF i.quantity < 0 THEN <<"quantity cannot be negative">>
    ELSE IF i.reserved < 0 THEN <<"reserved quantity cannot be negative">>
    ELSE IF i.location = "" THEN <<"location cannot be empty">>
    ELSE <<>>

\* InventoryItem.Validate
InventoryItemValidate(i) ==
    IF i.product_id = "" THEN <<"product_id cannot be empty">>
    ELSE IF i.quantity < 0 THEN <<"quantity cannot be negative">>
    ELSE IF i.reserved < 0 THEN <<"reserved quantity cannot be negative">>
    ELSE IF i.reserved > i.quantity
    THEN <<"reserved quantity cannot exceed total quantity">>
    ELSE IF i.location = "" THEN <<"location cannot be empty">>
    ELSE Nil

\* ------------------------------------------------------------ repositories
\* mutant of GetByProductID: no row gives an empty item and no error
GetByProductIDNoError(inv, productID) ==
    LET ids == {id \in DOMAIN inv : inv[id].product_id = productID}
    IN  IF ids = {}
        THEN [item |-> NoItem, err |-> Nil]
        ELSE LET id == CHOOSE x \in ids : TRUE
             IN  [item |-> [id |-> id, product_id |-> inv[id].product_id,
                            quantity |-> inv[id].quantity,
                            reserved |-> inv[id].reserved,
                            location |-> inv[id].location],
                  err |-> Nil]

\* mutant of GetByProductID: the quantity column read is the available one
GetByProductIDAvailable(inv, productID) ==
    LET ids == {id \in DOMAIN inv : inv[id].product_id = productID}
    IN  IF ids = {}
        THEN [item |-> NoItem, err |-> <<"inventory item not found">>]
        ELSE LET id == CHOOSE x \in ids : TRUE
             IN  [item |-> [id |-> id, product_id |-> inv[id].product_id,
                            quantity |-> inv[id].quantity - inv[id].reserved,
                            reserved |-> inv[id].reserved,
                            location |-> inv[id].location],
                  err |-> Nil]

\* PostgresInventoryRepository.GetByProductID: SELECT ... WHERE product_id = $1
GetByProductID(inv, productID) ==
    LET ids == {id \in DOMAIN inv : inv[id].product_id = productID}
    IN  IF ids = {}
        THEN [item |-> NoItem, err |-> ErrItemNotFound]
        ELSE LET id == CHOOSE x \in ids : TRUE
             IN  [item |-> [id |-> id, product_id |-> inv[id].product_id,
                            quantity |-> inv[id].quantity,
                            reserved |-> inv[id].reserved,
                            location |-> inv[id].location],
                  err |-> Nil]

\* mutant of UpdateGuard: the availability condition is missing
UpdateGuardNoAvailability(row, quantityDelta, reservedDelta) ==
    /\ (row.quantity + quantityDelta) >= 0
    /\ (row.reserved + reservedDelta) >= 0

\* mutant of UpdateGuard: what is being reserved is not counted against the
\* quantity
UpdateGuardNoReservedDelta(row, quantityDelta, reservedDelta) ==
    /\ (row.quantity + quantityDelta) >= 0
    /\ (row.reserved + reservedDelta) >= 0
    /\ (row.quantity + quantityDelta - row.reserved) >= 0

\* mutant of UpdateGuard: reserved may be pushed below zero
UpdateGuardNoReservedFloor(row, quantityDelta, reservedDelta) ==
    /\ (row.quantity + quantityDelta) >= 0
    /\ (row.quantity + quantityDelta - row.reserved - reservedDelta) >= 0

\* mutant of UpdateGuard: the update must leave some quantity available
UpdateGuardStrict(row, quantityDelta, reservedDelta) ==
    /\ (row.quantity + quantityDelta) >= 0
    /\ (row.reserved + reservedDelta) >= 0
    /\ (row.quantity + quantityDelta - row.reserved - reservedDelta) > 0

\* The WHERE clause of the UPDATE statement of UpdateQuantity, on one row
UpdateGuard(row, quantityDelta, reservedDelta) ==
    /\ (row.quantity + quantityDelta) >= 0
    /\ (row.reserved + reservedDelta) >= 0
    /\ (row.quantity + quantityDelta - row.reserved - reservedDelta) >= 0

\* mutant of UpdateSet: the reserved column is not updated
UpdateSetQuantityOnly(row, quantityDelta, reservedDelta) ==
    [row EXCEPT !.quantity = row.quantity + quantityDelta]

\* The SET clause of the UPDATE statement of UpdateQuantity, on one row
UpdateSet(row, quantityDelta, reservedDelta) ==
    [row EXCEPT !.quantity = row.quantity + quantityDelta,
                !.reserved = row.reserved + reservedDelta]

\* mutant of UpdateQuantity: the UPDATE has no `id = $4` in its WHERE clause
UpdateQuantityAllRows(inv, inventoryID, quantityDelta, reservedDelta) ==
    LET hits == {j \in DOMAIN inv : UpdateGuard(inv[j], quantityDelta, reservedDelta)}
    IN  IF hits # {}
        THEN [inventory |-> [j \in DOMAIN inv |->
                                IF j \in hits
                                THEN UpdateSet(inv[j], quantityDelta, reservedDelta)
                                ELSE inv[j]],
              err |-> <<>>]
        ELSE [inventory |-> inv, err |-> ErrZeroRows]

\* mutant of UpdateQuantity: the deltas are applied unconditionally, as by the
\* mock repository of the service tests
UpdateQuantityUnconditional(inv, inventoryID, quantityDelta, reservedDelta) ==
    IF inventoryID \in DOMAIN inv
    THEN [inventory |-> [inv EXCEPT ![inventoryID] =
                            UpdateSet(inv[inventoryID], quantityDelta, reservedDelta)],
          err |-> Nil]
    ELSE [inventory |-> inv, err |-> Nil]

\* mutant of UpdateQuantity: the row is updated first and the guard is checked
\* on the way out
UpdateQuantityCheckAfter(inv, inventoryID, quantityDelta, reservedDelta) ==
    IF inventoryID \in DOMAIN inv
    THEN [inventory |-> [inv EXCEPT ![inventoryID] =
                            UpdateSet(inv[inventoryID], quantityDelta, reservedDelta)],
          err |-> IF UpdateGuard(inv[inventoryID], quantityDelta, reservedDelta)
                  THEN Nil ELSE ErrZeroRows]
    ELSE [inventory |-> inv, err |-> ErrZeroRows]

\* mutant of UpdateQuantity: an UPDATE that changed no row is not an error
UpdateQuantityIgnoresRows(inv, inventoryID, quantityDelta, reservedDelta) ==
    IF inventoryID \in DOMAIN inv
       /\ UpdateGuard(inv[inventoryID], quantityDelta, reservedDelta)
    THEN [inventory |-> [inv EXCEPT ![inventoryID] =
                            UpdateSet(inv[inventoryID], quantityDelta, reservedDelta)],
          err |-> <<>>]
    ELSE [inventory |-> inv, err |-> <<>>]

\* MockInventoryRepository.UpdateQuantity of the service tests: the deltas
\* are added to the item if the map holds it; nil is returned either way
MockUpdateQuantity(items, inventoryID, quantityDelta, reservedDelta) ==
    IF inventoryID \in DOMAIN items
    THEN [inventory |-> [items EXCEPT
                            ![inventoryID].quantity = @ + quantityDelta,
                            ![inventoryID].reserved = @ + reservedDelta],
          err |-> Nil]
    ELSE [inventory |-> items, err |-> Nil]

\* PostgresInventoryRepository.UpdateQuantity: one conditional UPDATE, then
\* the rows-affected check.
UpdateQuantity(inv, inventoryID, quantityDelta, reservedDelta) ==
    LET hit == /\ inventoryID \in DOMAIN inv
               /\ UpdateGuard(inv[inventoryID], quantityDelta, reservedDelta)
    IN  IF hit
        THEN [inventory |-> [inv EXCEPT ![inventoryID] =
                                UpdateSet(inv[inventoryID], quantityDelta, reservedDelta)],
              err |-> Nil]
        ELSE [inventory |-> inv, err |-> ErrZeroRows]

\* mutant of TransactionCreate: table transactions has no foreign keys
TransactionCreateNoForeignKeys(txs, t) ==
    IF TransactionValidate(t) # Nil
    THEN [transactions |-> txs, err |-> Wrap("validation error", TransactionValidate(t))]
    ELSE [transactions |-> Append(txs, t), err |-> Nil]

\* PostgresTransactionRepository.Create: Validate, then one INSERT, which the
\* foreign keys of table transactions (inventory_id, product_id) refuse when
\* the referenced rows are gone
TransactionCreate(txs, t) ==
    IF TransactionValidate(t) # Nil
    THEN [transactions |-> txs, err |-> Wrap("validation error", TransactionValidate(t))]
    ELSE IF t.product_id \notin products \/ t.inventory_id \notin DOMAIN inventory
    THEN [transactions |-> txs, err |-> ErrTransactionForeignKey]
    ELSE [transactions |-> Append(txs, t), err |-> Nil]

\* the rows of s from last to first
Reverse(s) == [i \in 1..Len(s) |-> s[Len(s) + 1 - i]]

\* mutant of TransactionGetByProductID: ORDER BY created_at ascending
TransactionGetByProductIDOldestFirst(txs, productID, limit, offset) ==
    IF limit < 0 \/ offset < 0
    THEN [transactions |-> <<>>, err |-> <<"failed to list transactions", "negative LIMIT or OFFSET">>]
    ELSE LET rows == SelectSeq(txs, LAMBDA t : t.product_id = productID)
             last == IF offset + limit < Len(rows) THEN offset + limit ELSE Len(rows)
         IN  [transactions |-> SubSeq(rows, offset + 1, last), err |-> <<>>]

\* PostgresTransactionRepository.GetByProductID: SELECT ... WHERE product_id
\* = $1 ORDER BY created_at DESC LIMIT $2 OFFSET $3; the store refuses a
\* negative LIMIT or OFFSET
TransactionGetByProductID(txs, productID, limit, offset) ==
    IF limit < 0 \/ offset < 0
    THEN [transactions |-> <<>>, err |-> ErrListNegative]
    ELSE LET rows == Reverse(SelectSeq(txs, LAMBDA t : t.product_id = productID))
             last == IF offset + limit < Len(rows) THEN offset + limit ELSE Len(rows)
         IN  [transactions |-> SubSeq(rows, offset + 1, last), err |-> Nil]

\* mutant of ProductCreate: column sku has no UNIQUE constraint
ProductCreateNoUnique(prods, product, id) ==
    IF ProductValidate(product) # <<>>
    THEN [products |-> prods, skus |-> skus,
          err |-> <<"validation error">> \o ProductValidate(product)]
    ELSE [products |-> prods \cup {id},
          skus |-> [j \in prods \cup {id} |-> IF j = id THEN product.sku ELSE skus[j]],
          err |-> <<>>]

\* the product rows and their SKUs after a row with this id and SKU is added
WithProduct(prods, id, sku) ==
    [products |-> prods \cup {id},
     skus |-> [j \in prods \cup {id} |-> IF j = id THEN sku ELSE skus[j]]]

\* PostgresProductRepository.Create: Validate, then one INSERT under the id
\* uuid.New() returned, which the UNIQUE constraint on sku refuses
ProductCreate(prods, product, id) ==
    IF ProductValidate(product) # Nil
    THEN [products |-> prods, skus |-> skus,
          err |-> Wrap("validation error", ProductValidate(product))]
    ELSE IF \E j \in prods : skus[j] = product.sku
    THEN [products |-> prods, skus |-> skus, err |-> ErrCreateProductDuplicate]
    ELSE [products |-> WithProduct(prods, id, product.sku).products,
          skus |-> WithProduct(prods, id, product.sku).skus,
          err |-> Nil]

\* PostgresProductRepository.Update: Validate, then one UPDATE of the row
\* with the product's id, which the UNIQUE constraint on sku refuses; no row
\* is an error
ProductUpdate(prods, product, id) ==
    IF ProductValidate(product) # Nil
    THEN [skus |-> skus, err |-> Wrap("validation error", ProductValidate(product))]
    ELSE IF id \notin prods
    THEN [skus |-> skus, err |-> ErrProductNotFound]
    ELSE IF \E j \in prods \ {id} : skus[j] = product.sku
    THEN [skus |-> skus, err |-> ErrUpdateProductDuplicate]
    ELSE [skus |-> [skus EXCEPT ![id] = product.sku], err |-> Nil]

\* PostgresProductRepository.GetByID
ProductGetByID(prods, id) ==
    IF id \in prods
    THEN [product |-> [id |-> id], err |-> Nil]
    ELSE [product |-> NoProduct, err |-> ErrProductNotFound]

\* mutant of CascadeTransactions: the delete empties the whole ledger
CascadeTransactionsAll(txs, inv, id) == <<>>

\* the transactions left by ON DELETE CASCADE when product id is deleted:
\* those of the product and those of its inventory rows go
CascadeTransactions(txs, inv, id) ==
    SelectSeq(txs, LAMBDA t : /\ t.product_id # id
                              /\ \A i \in DOMAIN inv :
                                    inv[i].product_id = id => t.inventory_id # i)

\* mutant of CascadeInventory: table inventory has no ON DELETE CASCADE
CascadeInventoryKept(inv, id) == inv

\* the inventory rows left by ON DELETE CASCADE when product id is deleted
CascadeInventory(inv, id) ==
    [i \in {j \in DOMAIN inv : inv[j].product_id # id} |-> inv[i]]

\* PostgresProductRepository.Delete: one DELETE, cascading to the inventory
\* row and the transactions of the product; no row deleted is an error
ProductDelete(prods, inv, txs, id) ==
    IF id \in prods
    THEN [products |-> prods \ {id},
          skus |-> [j \in prods \ {id} |-> skus[j]],
          inventory |-> CascadeInventory(inv, id),
          transactions |-> CascadeTransactions(txs, inv, id),
          err |-> Nil]
    ELSE [products |-> prods, skus |-> skus, inventory |-> inv,
          transactions |-> txs, err |-> ErrProductNotFound]

\* PostgresInventoryRepository.Create: Validate, then one INSERT under the id
\* uuid.New() returned, which the foreign key and the UNIQUE constraint on
\* product_id refuse
InventoryCreate(prods, inv, i, id) ==
    IF InventoryItemValidate(i) # Nil
    THEN [inventory |-> inv, err |-> Wrap("validation error", InventoryItemValidate(i))]
    ELSE IF i.product_id \notin prods
            \/ \E j \in DOMAIN inv : inv[j].product_id = i.product_id
    THEN [inventory |-> inv, err |-> ErrCreateItemConstraint]
    ELSE [inventory |-> [j \in DOMAIN inv \cup {id} |->
                            IF j = id
                            THEN [product_id |-> i.product_id, quantity |-> i.quantity,
                                  reserved |-> i.reserved,
                                  location |-> i.location]
                            ELSE inv[j]],
          err |-> Nil]

\* PostgresInventoryRepository.Update: Validate, then one UPDATE of quantity,
\* reserved and location of the row with the item's id; no row is an error
InventoryUpdate(inv, i) ==
    IF InventoryItemValidate(i) # Nil
    THEN [inventory |-> inv, err |-> Wrap("validation error", InventoryItemValidate(i))]
    ELSE IF i.id \notin DOMAIN inv
    THEN [inventory |-> inv, err |-> ErrItemNotFound]
    ELSE [inventory |-> [inv EXCEPT ![i.id] = [@ EXCEPT !.quantity = i.quantity,
                                                        !.reserved = i.reserved,
                                                        !.location = i.location]],
          err |-> Nil]

\* ------------------------------------------------------------ service
\* mutant of Deltas: AddStock also reserves what it adds
DeltasAddAlsoReserves(kind, quantity) ==
    CASE kind = "AddStock"       -> <<quantity, quantity>>
      [] kind = "RemoveStock"    -> <<-quantity, 0>>
      [] kind = "ReserveStock"   -> <<0, quantity>>
      [] kind = "UnreserveStock" -> <<0, -quantity>>

\* the (quantityDelta, reservedDelta) each operation passes to UpdateQuantity
Deltas(kind, quantity) ==
    CASE kind = "AddStock"       -> <<quantity, 0>>
      [] kind = "RemoveStock"    -> <<0 - quantity, 0>>
      [] kind = "ReserveStock"   -> <<0, quantity>>
      [] kind = "UnreserveStock" -> <<0, 0 - quantity>>

\* mutant of PreCheck: ReserveStock compares the demand with the quantity,
\* not with what is available
PreCheckReserveAgainstQuantity(kind, i, quantity) ==
    CASE kind = "AddStock" -> Nil
      [] kind = "RemoveStock" ->
            IF AvailableQuantity(i) < quantity
            THEN <<"insufficient stock available">> ELSE Nil
      [] kind = "ReserveStock" ->
            IF i.quantity < quantity
            THEN <<"insufficient stock available for reservation">> ELSE Nil
      [] kind = "UnreserveStock" ->
            IF i.reserved < quantity
            THEN <<"insufficient reserved stock">> ELSE Nil

\* the check each operation makes on the item it read, before the update
PreCheck(kind, i, quantity) ==
    CASE kind = "AddStock" -> Nil
      [] kind = "RemoveStock" ->
            IF AvailableQuantity(i) < quantity
            THEN <<"insufficient stock available">> ELSE Nil
      [] kind = "ReserveStock" ->
            IF AvailableQuantity(i) < quantity
            THEN <<"insufficient stock available for reservation">> ELSE Nil
      [] kind = "UnreserveStock" ->
            IF i.reserved < quantity
            THEN <<"insufficient reserved stock">> ELSE Nil

\* the message each operation wraps around an UpdateQuantity error
UpdateFailedMsg(kind) ==
    CASE kind = "AddStock"       -> "failed to update quantity"
      [] kind = "RemoveStock"    -> "failed to update quantity"
      [] kind = "ReserveStock"   -> "failed to reserve stock"
      [] kind = "UnreserveStock" -> "failed to unreserve stock"

GetInventoryFailedMsg == "failed to get inventory"

\* mutant of RecordFailedMsg: the failed insert is reported as a failed update
RecordFailedMsgAsUpdate == "failed to update quantity"

RecordFailedMsg == "failed to record transaction"

\* mutant of TxType: UnreserveStock records a RESERVE entry
TxTypeUnreserveAsReserve(kind) ==
    CASE kind = "AddStock"       -> "IN"
      [] kind = "RemoveStock"    -> "OUT"
      [] kind = "ReserveStock"   -> "RESERVE"
      [] kind = "UnreserveStock" -> "RESERVE"

TxType(kind) ==
    CASE kind = "AddStock"       -> "IN"
      [] kind = "RemoveStock"    -> "OUT"
      [] kind = "ReserveStock"   -> "RESERVE"
      [] kind = "UnreserveStock" -> "UNRESERVE"

TxNotes(kind) ==
    CASE kind = "AddStock"       -> "Stock addition"
      [] kind = "RemoveStock"    -> "Stock removal"
      [] kind = "ReserveStock"   -> "Stock reservation"
      [] kind = "UnreserveStock" -> "Stock unreservation"

\* mutant of NewTransaction: the reference is not copied into the Transaction
NewTransactionNoReference(o, i) ==
    [inventory_id |-> i.id, product_id |-> o.productID, type |-> TxType(o.kind),
     quantity |-> o.quantity, reference |-> "", notes |-> TxNotes(o.kind)]

\* mutant of NewTransaction: every Transaction records a quantity of one
NewTransactionUnitQuantity(o, i) ==
    [inventory_id |-> i.id, product_id |-> o.productID, type |-> TxType(o.kind),
     quantity |-> 1, reference |-> o.reference, notes |-> TxNotes(o.kind)]

\* the Transaction a stock operation builds after its update
NewTransaction(o, i) ==
    [inventory_id |-> i.id, product_id |-> o.productID, type |-> TxType(o.kind),
     quantity |-> o.quantity, reference |-> o.reference, notes |-> TxNotes(o.kind)]

\* the Transaction CreateProduct records for a positive initial quantity
InitialTransaction(inventoryID, productID, initialQuantity) ==
    [inventory_id |-> inventoryID, product_id |-> productID, type |-> "IN",
     quantity |-> initialQuantity, reference |-> "INITIAL_STOCK",
     notes |-> "Initial stock entry"]

NoSums == [add |-> 0, remove |-> 0, reserve |-> 0, unreserve |-> 0]

AddToSums(s, kind, quantity) ==
    CASE kind = "AddStock"       -> [s EXCEPT !.add = @ + quantity]
      [] kind = "RemoveStock"    -> [s EXCEPT !.remove = @ + quantity]
      [] kind = "ReserveStock"   -> [s EXCEPT !.reserve = @ + quantity]
      [] kind = "UnreserveStock" -> [s EXCEPT !.unreserve = @ + quantity]

\* ------------------------------------------------------------ initial state
\* The store after CreateProduct("p1", location, q0) succeeded (the product,
\* its InventoryItem (q0, reserved 0) and, for q0 > 0, the INITIAL_STOCK
\* entry) and, for r0 > 0, after ReserveStock("p1", r0, "ORDER-000") succeeded.
InitStore(q0, r0) ==
    /\ products = {"p1"}
    /\ skus = [id \in {"p1"} |-> "SKU-0"]
    /\ inventory = [id \in {"inv-p1"} |->
                        [product_id |-> "p1", quantity |-> q0, reserved |-> r0,
                         location |-> "WH-1"]]
    /\ transactions =
          (IF q0 > 0 THEN <<InitialTransaction("inv-p1", "p1", q0)>> ELSE <<>>)
          \o (IF r0 > 0
              THEN <<NewTransaction([kind |-> "ReserveStock", productID |-> "p1",
                                     quantity |-> r0, reference |-> "ORDER-000"],
                                    [id |-> "inv-p1"])>>
              ELSE <<>>)
    /\ initial = [id \in {"inv-p1"} |-> q0]
    /\ sums = [id \in {"inv-p1"} |-> [NoSums EXCEPT !.reserve = r0]]
    /\ unrecorded = [id \in {"inv-p1"} |-> 0]

\* no lifecycle call in progress, none made yet
InitLife ==
    /\ adm = [a \in Admins |-> NoAdmin]
    /\ adminCalls = 0
    /\ created = 0
    /\ deleted = {}
    /\ got = NoGot
    /\ request = [stock |-> {}, admin |-> {}]
    /\ response = NoResponse

InitCallers ==
    /\ pc = [p \in Procs |-> "idle"]
    /\ op = [p \in Procs |-> NoOp]
    /\ item = [p \in Procs |-> NoItem]
    /\ ret = NoRet
    /\ okReturns = 0
    /\ errReturns = 0
    /\ InitLife

Init ==
    /\ \E q0 \in 0..MaxInit, r0 \in 0..MaxQty : r0 <= q0 /\ InitStore(q0, r0)
    /\ InitCallers
    /\ calls = 0

\* ------------------------------------------------------------ http
\* A string is the sequence of its pieces: "/" and the words between.
HasPrefix(str, prefix) ==
    Len(prefix) <= Len(str) /\ SubSeq(str, 1, Len(prefix)) = prefix

HasSuffix(str, suffix) ==
    Len(suffix) <= Len(str)
    /\ SubSeq(str, Len(str) - Len(suffix) + 1, Len(str)) = suffix

\* strings.TrimPrefix, strings.TrimSuffix
TrimPrefix(str, prefix) ==
    IF HasPrefix(str, prefix) THEN SubSeq(str, Len(prefix) + 1, Len(str)) ELSE str

TrimSuffix(str, suffix) ==
    IF HasSuffix(str, suffix) THEN SubSeq(str, 1, Len(str) - Len(suffix)) ELSE str

\* contains of cmd/server/main.go
Contains(str, substr) ==
    \E i \in 0..(Len(str) - Len(substr)) : SubSeq(str, i + 1, i + Len(substr)) = substr

ProductsPath == <<"/", "api", "/", "products">>
StockPath(operation) == <<"/", "stock", "/", operation>>
StockOperations == [AddStock |-> "add", RemoveStock |-> "remove",
                    ReserveStock |-> "reserve", UnreserveStock |-> "unreserve"]

\* the Go string of a path parameter: the pieces joined
PathString(str) ==
    IF Len(str) = 1 THEN str[1]
    ELSE IF str = <<"p1">> \o StockPath("add") THEN "p1/stock/add"
    ELSE IF str = <<"p1">> \o StockPath("remove") THEN "p1/stock/remove"
    ELSE IF str = <<"p1">> \o StockPath("reserve") THEN "p1/stock/reserve"
    ELSE IF str = <<"p1">> \o StockPath("unreserve") THEN "p1/stock/unreserve"
    ELSE IF str = <<"p2">> \o StockPath("add") THEN "p2/stock/add"
    ELSE IF str = <<"p2">> \o StockPath("remove") THEN "p2/stock/remove"
    ELSE IF str = <<"p2">> \o StockPath("reserve") THEN "p2/stock/reserve"
    ELSE IF str = <<"p2">> \o StockPath("unreserve") THEN "p2/stock/unreserve"
    ELSE ""

\* the routes of main: the handler a request is dispatched to
Route(method, path) ==
    IF path = ProductsPath
    THEN IF method = "GET" THEN "ListProductsHandler"
         ELSE IF method = "POST" THEN "CreateProductHandler"
         ELSE "MethodNotAllowed"
    ELSE IF ~HasPrefix(path, ProductsPath \o <<"/">>) THEN "NotFound"
    ELSE IF Contains(path, StockPath("add")) /\ method = "POST" THEN "AddStockHandler"
    ELSE IF Contains(path, StockPath("remove")) /\ method = "POST" THEN "RemoveStockHandler"
    ELSE IF Contains(path, StockPath("reserve")) /\ method = "POST" THEN "ReserveStockHandler"
    ELSE IF Contains(path, StockPath("unreserve")) /\ method = "POST"
    THEN "UnreserveStockHandler"
    ELSE IF Contains(path, <<"/", "inventory">>) /\ method = "GET" THEN "GetInventoryHandler"
    ELSE IF Contains(path, <<"/", "transactions">>) /\ method = "GET"
    THEN "GetTransactionsHandler"
    ELSE IF method = "GET" THEN "GetProductHandler"
    ELSE IF method = "PUT" THEN "UpdateProductHandler"
    ELSE IF method = "DELETE" THEN "DeleteProductHandler"
    ELSE "MethodNotAllowed"

\* the service operation a stock handler calls
HandlerOperation ==
    [AddStockHandler |-> "AddStock", RemoveStockHandler |-> "RemoveStock",
     ReserveStockHandler |-> "ReserveStock", UnreserveStockHandler |-> "UnreserveStock"]

\* the productID a stock handler takes from the path of its request
StockProductID(handler, path) ==
    TrimSuffix(TrimPrefix(TrimPrefix(path, ProductsPath \o <<"/">>),
                          StockPath(StockOperations[HandlerOperation[handler]])),
               <<"/">>)

\* the productID GetInventoryHandler takes from the path of its request
InventoryProductID(path) ==
    TrimSuffix(TrimSuffix(TrimPrefix(path, ProductsPath \o <<"/">>), <<"/", "inventory">>),
               <<"/">>)

\* the request among reqs whose handler runs the call of caller c
RequestOf(reqs, c) ==
    IF \E r \in reqs : r.caller = c
    THEN (CHOOSE r \in reqs : r.caller = c).req
    ELSE NoRequest

\* the status a handler writes when its service call returned err
Respond(req, err) ==
    IF req = NoRequest THEN NoResponse
    ELSE LET handler == Route(req.method, req.path)
         IN  IF handler = "CreateProductHandler"
             THEN IF err # Nil THEN 500 ELSE 201
             ELSE IF handler = "GetInventoryHandler"
             THEN IF err # Nil THEN 404 ELSE 200
             ELSE IF err # Nil THEN 500 ELSE 200

\* ------------------------------------------------------------ actions
\* The call of caller p returns err: the caller observes the outcome, the
\* locals of the call go out of scope.
Returns(p, err) ==
    /\ pc' = [pc EXCEPT ![p] = "idle"]
    /\ ret' = err
    /\ okReturns' = IF err = Nil THEN okReturns + 1 ELSE okReturns
    /\ errReturns' = IF err = Nil THEN errReturns ELSE errReturns + 1
    /\ op' = [op EXCEPT ![p] = NoOp]
    /\ item' = [item EXCEPT ![p] = NoItem]
    /\ got' = NoGot
    /\ response' = Respond(RequestOf(request.stock, p), err)
    /\ request' = [request EXCEPT !.stock = {r \in @ : r.caller # p}]

\* The call of caller p goes on to its next store access.
GoesOn(p, next) ==
    /\ pc' = [pc EXCEPT ![p] = next]
    /\ ret' = NoRet
    /\ got' = NoGot
    /\ response' = NoResponse
    /\ UNCHANGED <<okReturns, errReturns, request>>

\* mutant of Call: only a negative quantity is refused
CallZeroPasses(p) ==
    /\ pc[p] = "idle"
    /\ calls < MaxCalls
    /\ calls' = calls + 1
    /\ \E kind \in OpKinds, productID \in ProductIDs,
          quantity \in Quantities, reference \in References :
          IF quantity < 0
          THEN Returns(p, ErrQuantityMustBePositive)
          ELSE /\ GoesOn(p, "read")
               /\ op' = [op EXCEPT ![p] = [kind |-> kind, productID |-> productID,
                                           quantity |-> quantity,
                                           reference |-> reference]]
               /\ UNCHANGED item
    /\ UNCHANGED <<store, history, life>>

\* A caller starts a stock operation; `quantity <= 0` returns at once.
Call(p) ==
    /\ pc[p] = "idle"
    /\ calls < MaxCalls
    /\ calls' = calls + 1
    /\ \E kind \in OpKinds, productID \in ProductIDs,
          quantity \in Quantities, reference \in References :
          IF quantity <= 0
          THEN Returns(p, ErrQuantityMustBePositive)
          ELSE /\ GoesOn(p, "read")
               /\ op' = [op EXCEPT ![p] = [kind |-> kind, productID |-> productID,
                                           quantity |-> quantity,
                                           reference |-> reference]]
               /\ UNCHANGED item
    /\ UNCHANGED <<store, history, life>>

\* inventoryRepo.GetByProductID returns, followed by the operation's check
\* of the item it read.
ReadInventory(p) ==
    /\ pc[p] = "read"
    /\ LET r == GetByProductID(inventory, op[p].productID)
           c == PreCheck(op[p].kind, r.item, op[p].quantity)
       IN  IF r.err # Nil
           THEN Returns(p, Wrap(GetInventoryFailedMsg, r.err))
           ELSE IF c # Nil
           THEN Returns(p, c)
           ELSE /\ GoesOn(p, "update")
                /\ item' = [item EXCEPT ![p] = r.item]
                /\ UNCHANGED op
    /\ UNCHANGED <<store, calls, history, life>>

\* inventoryRepo.GetByProductID fails: the store is unavailable
ReadFail(p) ==
    /\ pc[p] = "read"
    /\ Returns(p, Wrap(GetInventoryFailedMsg, ErrGetItemFailed))
    /\ UNCHANGED <<store, calls, history, life>>

\* mutant of Update: an update that changed no row is tried again from the
\* read
UpdateRetries(p) ==
    /\ pc[p] = "update"
    /\ LET d == Deltas(op[p].kind, op[p].quantity)
           r == UpdateQuantity(inventory, item[p].id, d[1], d[2])
       IN  /\ inventory' = r.inventory
           /\ IF r.err = Nil
              THEN /\ GoesOn(p, "record")
                   /\ sums' = [sums EXCEPT ![item[p].id] =
                                  AddToSums(@, op[p].kind, op[p].quantity)]
                   /\ UNCHANGED <<op, item>>
              ELSE /\ GoesOn(p, "read")
                   /\ UNCHANGED <<sums, op, item>>
    /\ UNCHANGED <<products, skus, transactions, calls, initial, unrecorded, life>>

\* mutant of Update: the operation goes on to its Transaction although the
\* update changed no row
UpdateRecordsRejected(p) ==
    /\ pc[p] = "update"
    /\ LET d == Deltas(op[p].kind, op[p].quantity)
           r == UpdateQuantity(inventory, item[p].id, d[1], d[2])
       IN  /\ inventory' = r.inventory
           /\ GoesOn(p, "record")
           /\ sums' = IF r.err = <<>>
                      THEN [sums EXCEPT ![item[p].id] =
                              AddToSums(@, op[p].kind, op[p].quantity)]
                      ELSE sums
           /\ UNCHANGED <<op, item>>
    /\ UNCHANGED <<products, skus, transactions, calls, initial, unrecorded, life>>

\* inventoryRepo.UpdateQuantity executes its UPDATE statement
Update(p) ==
    /\ pc[p] = "update"
    /\ LET d == Deltas(op[p].kind, op[p].quantity)
           r == UpdateQuantity(inventory, item[p].id, d[1], d[2])
       IN  /\ inventory' = r.inventory
           /\ IF r.err = Nil
              THEN /\ GoesOn(p, "record")
                   /\ sums' = [sums EXCEPT ![item[p].id] =
                                  AddToSums(@, op[p].kind, op[p].quantity)]
                   /\ UNCHANGED <<op, item>>
              ELSE /\ Returns(p, Wrap(UpdateFailedMsg(op[p].kind), r.err))
                   /\ UNCHANGED sums
    /\ UNCHANGED <<products, skus, transactions, calls, initial, unrecorded, life>>

\* mutant of UpdateFail: the statement that failed was applied all the same
UpdateFailApplied(p) ==
    /\ pc[p] = "update"
    /\ item[p].id \in DOMAIN inventory
    /\ inventory' = [inventory EXCEPT ![item[p].id].quantity = @ + op[p].quantity]
    /\ Returns(p, Wrap(UpdateFailedMsg(op[p].kind), ErrExecUpdateFailed))
    /\ UNCHANGED <<products, skus, transactions, calls, history, life>>

\* inventoryRepo.UpdateQuantity fails: the store is unavailable
UpdateFail(p) ==
    /\ pc[p] = "update"
    /\ Returns(p, Wrap(UpdateFailedMsg(op[p].kind), ErrExecUpdateFailed))
    /\ UNCHANGED <<store, calls, history, life>>

\* transactionRepo.Create inserts the Transaction; the operation returns
Record(p) ==
    /\ pc[p] = "record"
    /\ LET r == TransactionCreate(transactions, NewTransaction(op[p], item[p]))
       IN  /\ transactions' = r.transactions
           /\ Returns(p, IF r.err # Nil THEN Wrap(RecordFailedMsg, r.err) ELSE Nil)
           /\ unrecorded' = IF r.err # Nil
                            THEN [unrecorded EXCEPT ![item[p].id] = @ + 1]
                            ELSE unrecorded
    /\ UNCHANGED <<products, skus, inventory, calls, initial, sums, life>>

\* transactionRepo.Create fails: the store is unavailable
RecordFail(p) ==
    /\ pc[p] = "record"
    /\ Returns(p, Wrap(RecordFailedMsg, ErrCreateTransaction))
    /\ unrecorded' = [unrecorded EXCEPT ![item[p].id] = @ + 1]
    /\ UNCHANGED <<store, calls, initial, sums, life>>

Next ==
    \E p \in Procs :
        \/ Call(p)
        \/ ReadInventory(p)
        \/ ReadFail(p)
        \/ Update(p)
        \/ UpdateFail(p)
        \/ Record(p)
        \/ RecordFail(p)

Spec == Init /\ [][Next]_vars

\* ------------------------------------------------------------ the race
\* Two callers have each started a RemoveStock or a ReserveStock on the same
\* item; each demand alone fits the available quantity, both together do
\* not.  Every store access succeeds.
InitRace ==
    /\ \E q0 \in 0..MaxRaceInit, r0 \in 0..MaxQty : r0 <= q0 /\ InitStore(q0, r0)
    /\ \E k1, k2 \in {"RemoveStock", "ReserveStock"}, n1, n2 \in 1..MaxQty :
          /\ n1 <= AvailableQuantity(inventory["inv-p1"])
          /\ n2 <= AvailableQuantity(inventory["inv-p1"])
          /\ n1 + n2 > AvailableQuantity(inventory["inv-p1"])
          /\ op = [p \in Procs |->
                    IF p = 1
                    THEN [kind |-> k1, productID |-> "p1", quantity |-> n1,
                          reference |-> "ORDER-001"]
                    ELSE IF p = 2
                    THEN [kind |-> k2, productID |-> "p1", quantity |-> n2,
                          reference |-> "ORDER-001"]
                    ELSE NoOp]
    /\ pc = [p \in Procs |-> IF p \in {1, 2} THEN "read" ELSE "idle"]
    /\ item = [p \in Procs |-> NoItem]
    /\ ret = NoRet
    /\ okReturns = 0
    /\ errReturns = 0
    /\ calls = MaxCalls
    /\ InitLife

NextRace ==
    \E p \in Procs :
        \/ ReadInventory(p)
        \/ Update(p)
        \/ Record(p)

SpecRace == InitRace /\ [][NextRace]_vars

\* ------------------------------------------------------------ lifecycle
callers == <<pc, op, item, calls, okReturns, errReturns>>

\* what a lifecycle operation returns beside its error
Values(kind, productID, product, inventoryItem) ==
    [NoGot EXCEPT !.kind = kind, !.productID = productID, !.product = product,
                  !.inventory = inventoryItem]

\* The lifecycle call of caller a returns err and values.
AdminReturns(a, err, values) ==
    /\ adm' = [adm EXCEPT ![a] = NoAdmin]
    /\ ret' = err
    /\ got' = values
    /\ response' = Respond(RequestOf(request.admin, a), err)
    /\ request' = [request EXCEPT !.admin = {r \in @ : r.caller # a}]

\* The lifecycle call of caller a goes on to its next store access.
AdminGoesOn(a, locals) ==
    /\ adm' = [adm EXCEPT ![a] = locals]
    /\ ret' = NoRet
    /\ got' = NoGot
    /\ response' = NoResponse
    /\ UNCHANGED request

\* CreateProduct is called: product.Validate() refuses an invalid product
\* at once.
CreateProduct(a) ==
    /\ adm[a].pc = "idle"
    /\ adminCalls < MaxAdminCalls
    /\ adminCalls' = adminCalls + 1
    /\ \E product \in ProductInputs, location \in Locations,
          initialQuantity \in InitialQuantities :
          IF ProductValidate(product) # Nil
          THEN AdminReturns(a, Wrap("invalid product", ProductValidate(product)),
                            Values("CreateProduct", "", NoProduct, NoItem))
          ELSE /\ created + Cardinality({b \in Admins : adm[b].pc = "cp_product"})
                      < MaxCreates
               /\ AdminGoesOn(a, [NoAdmin EXCEPT !.pc = "cp_product",
                                                 !.product = product,
                                                 !.location = location,
                                                 !.quantity = initialQuantity])
    /\ UNCHANGED <<store, history, callers, created, deleted>>

\* s.productRepo.Create inserts the Product row
InsertProduct(a) ==
    /\ adm[a].pc = "cp_product"
    /\ LET id == ProductIDPool[created + 1]
           r  == ProductCreate(products, adm[a].product, id)
       IN  /\ products' = r.products
           /\ skus' = r.skus
           /\ IF r.err # Nil
              THEN /\ AdminReturns(a, Wrap("failed to create product", r.err),
                                   Values("CreateProduct", "", NoProduct, NoItem))
                   /\ UNCHANGED created
              ELSE /\ AdminGoesOn(a, [adm[a] EXCEPT !.pc = "cp_inventory",
                                                    !.productID = id])
                   /\ created' = created + 1
    /\ UNCHANGED <<inventory, transactions, history, callers, adminCalls, deleted>>

\* s.productRepo.Create fails: the store is unavailable
InsertProductFail(a) ==
    /\ adm[a].pc = "cp_product"
    /\ AdminReturns(a, Wrap("failed to create product", ErrCreateProductFailed),
                    Values("CreateProduct", "", NoProduct, NoItem))
    /\ UNCHANGED <<store, history, callers, adminCalls, created, deleted>>

\* the InventoryItem CreateProduct builds for the product it inserted
NewInventoryItem(locals) ==
    [product_id |-> locals.productID, quantity |-> locals.quantity, reserved |-> 0,
     location |-> locals.location]

\* s.inventoryRepo.Create validates and inserts the InventoryItem; without
\* an initial quantity CreateProduct returns
InsertInventory(a) ==
    /\ adm[a].pc = "cp_inventory"
    /\ LET pid == adm[a].productID
           id  == InventoryIDs[pid]
           r   == InventoryCreate(products, inventory, NewInventoryItem(adm[a]), id)
       IN  /\ inventory' = r.inventory
           /\ IF r.err # Nil
              THEN /\ AdminGoesOn(a, [adm[a] EXCEPT
                                        !.pc = "cp_cleanup",
                                        !.err = Wrap("failed to create inventory", r.err)])
                   /\ UNCHANGED history
              ELSE /\ initial' = [j \in DOMAIN initial \cup {id} |->
                                     IF j = id THEN adm[a].quantity ELSE initial[j]]
                   /\ sums' = [j \in DOMAIN sums \cup {id} |->
                                  IF j = id THEN NoSums ELSE sums[j]]
                   /\ unrecorded' = [j \in DOMAIN unrecorded \cup {id} |->
                                        IF j = id THEN 0 ELSE unrecorded[j]]
                   /\ IF adm[a].quantity > 0
                      THEN AdminGoesOn(a, [adm[a] EXCEPT !.pc = "cp_tx"])
                      ELSE AdminReturns(a, Nil,
                                        Values("CreateProduct", pid, NoProduct, NoItem))
    /\ UNCHANGED <<products, skus, transactions, callers, adminCalls, created, deleted>>

\* s.inventoryRepo.Create fails: the store is unavailable
InsertInventoryFail(a) ==
    /\ adm[a].pc = "cp_inventory"
    /\ AdminGoesOn(a, [adm[a] EXCEPT
                          !.pc = "cp_cleanup",
                          !.err = Wrap("failed to create inventory", ErrCreateItemFailed)])
    /\ UNCHANGED <<store, history, callers, adminCalls, created, deleted>>

\* the clean up of CreateProduct: s.productRepo.Delete, its error ignored
DeleteCreatedProduct(a) ==
    /\ adm[a].pc = "cp_cleanup"
    /\ LET r == ProductDelete(products, inventory, transactions, adm[a].productID)
       IN  /\ products' = r.products
           /\ skus' = r.skus
           /\ inventory' = r.inventory
           /\ transactions' = r.transactions
    /\ AdminReturns(a, adm[a].err, Values("CreateProduct", "", NoProduct, NoItem))
    /\ UNCHANGED <<history, callers, adminCalls, created, deleted>>

\* the clean up of CreateProduct fails: the store is unavailable
DeleteCreatedProductFail(a) ==
    /\ adm[a].pc = "cp_cleanup"
    /\ AdminReturns(a, adm[a].err, Values("CreateProduct", "", NoProduct, NoItem))
    /\ UNCHANGED <<store, history, callers, adminCalls, created, deleted>>

\* s.transactionRepo.Create inserts the initial stock entry, its error
\* ignored; CreateProduct returns nil
InsertInitialTransaction(a) ==
    /\ adm[a].pc = "cp_tx"
    /\ LET pid == adm[a].productID
           r   == TransactionCreate(transactions,
                      InitialTransaction(InventoryIDs[pid], pid, adm[a].quantity))
       IN  /\ transactions' = r.transactions
           /\ AdminReturns(a, Nil, Values("CreateProduct", pid, NoProduct, NoItem))
    /\ UNCHANGED <<products, skus, inventory, history, callers, adminCalls, created, deleted>>

\* s.transactionRepo.Create fails: the store is unavailable; CreateProduct
\* returns nil all the same
InsertInitialTransactionFail(a) ==
    /\ adm[a].pc = "cp_tx"
    /\ AdminReturns(a, Nil, Values("CreateProduct", adm[a].productID, NoProduct, NoItem))
    /\ UNCHANGED <<store, history, callers, adminCalls, created, deleted>>

\* DeleteProduct: s.productRepo.Delete
DeleteProduct(a) ==
    /\ adm[a].pc = "idle"
    /\ adminCalls < MaxAdminCalls
    /\ adminCalls' = adminCalls + 1
    /\ \E productID \in ProductIDs :
          LET r == ProductDelete(products, inventory, transactions, productID)
          IN  /\ products' = r.products
              /\ skus' = r.skus
              /\ inventory' = r.inventory
              /\ transactions' = r.transactions
              /\ deleted' = IF r.err = Nil THEN deleted \cup {productID} ELSE deleted
              /\ AdminReturns(a, IF r.err # Nil
                                 THEN Wrap("failed to delete product", r.err)
                                 ELSE Nil,
                              Values("DeleteProduct", productID, NoProduct, NoItem))
    /\ UNCHANGED <<history, callers, created>>

\* GetInventory: s.inventoryRepo.GetByProductID
GetInventory(a) ==
    /\ adm[a].pc = "idle"
    /\ adminCalls < MaxAdminCalls
    /\ adminCalls' = adminCalls + 1
    /\ \E productID \in ProductIDs :
          LET r == GetByProductID(inventory, productID)
          IN  IF r.err # Nil
              THEN AdminReturns(a, Wrap(GetInventoryFailedMsg, r.err),
                                Values("GetInventory", productID, NoProduct, NoItem))
              ELSE AdminReturns(a, Nil,
                                Values("GetInventory", productID, NoProduct, r.item))
    /\ UNCHANGED <<store, history, callers, created, deleted>>

\* GetProduct: s.productRepo.GetByID
GetProduct(a) ==
    /\ adm[a].pc = "idle"
    /\ adminCalls < MaxAdminCalls
    /\ adminCalls' = adminCalls + 1
    /\ \E productID \in ProductIDs :
          LET r == ProductGetByID(products, productID)
          IN  IF r.err # Nil
              THEN AdminReturns(a, Wrap("failed to get product", r.err),
                                Values("GetProduct", productID, NoProduct, NoItem))
              ELSE AdminGoesOn(a, [NoAdmin EXCEPT !.pc = "gp_inventory",
                                                  !.productID = productID,
                                                  !.found = r.product])
    /\ UNCHANGED <<store, history, callers, created, deleted>>

\* GetProduct: s.inventoryRepo.GetByProductID, then the return
GetProductInventory(a) ==
    /\ adm[a].pc = "gp_inventory"
    /\ LET r == GetByProductID(inventory, adm[a].productID)
       IN  IF r.err # Nil
           THEN AdminReturns(a, Wrap(GetInventoryFailedMsg, r.err),
                             Values("GetProduct", adm[a].productID, NoProduct, NoItem))
           ELSE AdminReturns(a, Nil,
                             Values("GetProduct", adm[a].productID, adm[a].found, r.item))
    /\ UNCHANGED <<store, history, callers, adminCalls, created, deleted>>

\* ListTransactions: s.transactionRepo.GetByProductID
ListTransactions(a) ==
    /\ adm[a].pc = "idle"
    /\ adminCalls < MaxAdminCalls
    /\ adminCalls' = adminCalls + 1
    /\ \E productID \in ProductIDs, limit \in Limits, offset \in Offsets :
          LET r == TransactionGetByProductID(transactions, productID, limit, offset)
              v == [Values("ListTransactions", productID, NoProduct, NoItem)
                       EXCEPT !.limit = limit, !.offset = offset]
          IN  IF r.err # Nil
              THEN AdminReturns(a, Wrap("failed to list transactions", r.err), v)
              ELSE AdminReturns(a, Nil, [v EXCEPT !.transactions = r.transactions])
    /\ UNCHANGED <<store, history, callers, created, deleted>>

\* ListTransactions: the query fails
ListTransactionsFail(a) ==
    /\ adm[a].pc = "idle"
    /\ adminCalls < MaxAdminCalls
    /\ adminCalls' = adminCalls + 1
    /\ \E productID \in ProductIDs, limit \in Limits, offset \in Offsets :
          AdminReturns(a, Wrap("failed to list transactions", ErrListFailed),
                       [Values("ListTransactions", productID, NoProduct, NoItem)
                           EXCEPT !.limit = limit, !.offset = offset])
    /\ UNCHANGED <<store, history, callers, created, deleted>>

\* The store holds product "p1" with its item and its initial stock entry;
\* one stock operation and the lifecycle operations are still to be called.
InitLifecycle ==
    /\ InitStore(MaxInit, 0)
    /\ InitCallers
    /\ calls = MaxCalls - 1

\* the caller whose stock operation runs beside the lifecycle operations
StockCaller == {1}

NextLifecycle ==
    \/ \E p \in StockCaller :
          \/ Call(p)
          \/ ReadInventory(p)
          \/ Update(p)
          \/ Record(p)
    \/ \E a \in Admins :
          \/ CreateProduct(a)
          \/ InsertProduct(a)
          \/ InsertProductFail(a)
          \/ InsertInventory(a)
          \/ InsertInventoryFail(a)
          \/ DeleteCreatedProduct(a)
          \/ DeleteCreatedProductFail(a)
          \/ InsertInitialTransaction(a)
          \/ InsertInitialTransactionFail(a)
          \/ DeleteProduct(a)
          \/ GetInventory(a)
          \/ GetProduct(a)
          \/ GetProductInventory(a)

SpecLifecycle == InitLifecycle /\ [][NextLifecycle]_vars

\* ------------------------------------------------------------ the history
\* The store after CreateProduct of "p1" and of "p2" with an initial
\* quantity and ReserveStock("p1", 1, "ORDER-000") succeeded; one stock
\* operation and one ListTransactions are still to be called.
InitRead ==
    /\ products = {"p1", "p2"}
    /\ skus = [id \in {"p1", "p2"} |-> IF id = "p1" THEN "SKU-0" ELSE "SKU-1"]
    /\ inventory = [id \in {"inv-p1", "inv-p2"} |->
                        [product_id |-> IF id = "inv-p1" THEN "p1" ELSE "p2",
                         quantity |-> MaxInit,
                         reserved |-> IF id = "inv-p1" THEN 1 ELSE 0,
                         location |-> "WH-1"]]
    /\ transactions =
          <<InitialTransaction("inv-p1", "p1", MaxInit),
            InitialTransaction("inv-p2", "p2", MaxInit),
            NewTransaction([kind |-> "ReserveStock", productID |-> "p1",
                            quantity |-> 1, reference |-> "ORDER-000"],
                           [id |-> "inv-p1"])>>
    /\ initial = [id \in {"inv-p1", "inv-p2"} |-> MaxInit]
    /\ sums = [id \in {"inv-p1", "inv-p2"} |->
                  IF id = "inv-p1" THEN [NoSums EXCEPT !.reserve = 1] ELSE NoSums]
    /\ unrecorded = [id \in {"inv-p1", "inv-p2"} |-> 0]
    /\ InitCallers
    /\ calls = MaxCalls - 1

NextRead ==
    \/ \E p \in StockCaller :
          \/ Call(p)
          \/ ReadInventory(p)
          \/ Update(p)
          \/ Record(p)
    \/ \E a \in Admins :
          \/ ListTransactions(a)
          \/ ListTransactionsFail(a)

SpecRead == InitRead /\ [][NextRead]_vars

\* ------------------------------------------------------------ termination
\* a store access of the stock operation of caller p returns, with or
\* without an error
StockStep(p) ==
    \/ ReadInventory(p)
    \/ ReadFail(p)
    \/ Update(p)
    \/ UpdateFail(p)
    \/ Record(p)
    \/ RecordFail(p)

\* a store access of the lifecycle operation of caller a returns
AdminStep(a) ==
    \/ InsertProduct(a)
    \/ InsertProductFail(a)
    \/ InsertInventory(a)
    \/ InsertInventoryFail(a)
    \/ DeleteCreatedProduct(a)
    \/ DeleteCreatedProductFail(a)
    \/ InsertInitialTransaction(a)
    \/ InsertInitialTransactionFail(a)
    \/ GetProductInventory(a)

\* The store holds product "p1"; one stock operation and one lifecycle
\* operation are still to be called.
InitLive ==
    /\ InitStore(MaxInit, 0)
    /\ pc = [p \in Procs |-> "idle"]
    /\ op = [p \in Procs |-> NoOp]
    /\ item = [p \in Procs |-> NoItem]
    /\ ret = NoRet
    /\ got = NoGot
    /\ okReturns = 0
    /\ errReturns = 0
    /\ calls = MaxCalls - 1
    /\ adm = [a \in Admins |-> NoAdmin]
    /\ adminCalls = MaxAdminCalls - 1
    /\ created = 0
    /\ deleted = {}
    /\ request = [stock |-> {}, admin |-> {}]
    /\ response = NoResponse

NextLive ==
    \/ \E p \in Procs : Call(p) \/ StockStep(p)
    \/ \E a \in Admins :
          \/ CreateProduct(a)
          \/ DeleteProduct(a)
          \/ GetInventory(a)
          \/ GetProduct(a)
          \/ AdminStep(a)

\* every store access of an operation in progress returns
SpecLive ==
    /\ InitLive
    /\ [][NextLive]_vars
    /\ \A p \in Procs : WF_vars(StockStep(p))
    /\ \A a \in Admins : WF_vars(AdminStep(a))

\* ------------------------------------------------------------ the handlers
\* requests POST /api/products/{id}/stock/{operation} with a body
StockRequests ==
    {[NoRequest EXCEPT !.method = "POST",
                       !.path = ProductsPath \o <<"/", id>> \o StockPath(StockOperations[k]),
                       !.id = id, !.decodes = d, !.quantity = q] :
        id \in ProductIDs, k \in OpKinds, d \in BOOLEAN, q \in Quantities}

\* requests GET and POST /api/products/{id}/inventory
InventoryRequests ==
    {[NoRequest EXCEPT !.method = m,
                       !.path = ProductsPath \o <<"/", id, "/", "inventory">>,
                       !.id = id] :
        id \in ProductIDs, m \in {"GET", "POST"}}

\* requests POST /api/products with a body
CreateRequests ==
    {[NoRequest EXCEPT !.method = "POST", !.path = ProductsPath, !.decodes = d,
                       !.product = product, !.location = location, !.quantity = q] :
        d \in BOOLEAN, product \in ProductInputs, location \in Locations,
        q \in InitialQuantities}

\* a handler answers without calling the service
Answers(status) ==
    /\ response' = status
    /\ ret' = NoRet
    /\ got' = NoGot
    /\ UNCHANGED <<pc, op, item, okReturns, errReturns, adm, request>>

\* A stock handler serves a request: it decodes the body, takes the
\* productID from the path and calls its service operation, whose
\* `quantity <= 0` returns at once.
ServeStock(p) ==
    /\ pc[p] = "idle"
    /\ calls < MaxCalls
    /\ calls' = calls + 1
    /\ \E req \in StockRequests :
          LET handler   == Route(req.method, req.path)
              productID == PathString(StockProductID(handler, req.path))
          IN  /\ handler \in DOMAIN HandlerOperation
              /\ IF ~req.decodes
                 THEN Answers(400)
                 ELSE IF req.quantity <= 0
                 THEN /\ ret' = ErrQuantityMustBePositive
                      /\ response' = Respond(req, ErrQuantityMustBePositive)
                      /\ errReturns' = errReturns + 1
                      /\ got' = NoGot
                      /\ UNCHANGED <<pc, op, item, okReturns, adm, request>>
                 ELSE /\ pc' = [pc EXCEPT ![p] = "read"]
                      /\ op' = [op EXCEPT ![p] = [kind |-> HandlerOperation[handler],
                                                  productID |-> productID,
                                                  quantity |-> req.quantity,
                                                  reference |-> "ORDER-001"]]
                      /\ request' = [request EXCEPT
                                      !.stock = @ \cup {[caller |-> p, req |-> req]}]
                      /\ ret' = NoRet
                      /\ response' = NoResponse
                      /\ got' = NoGot
                      /\ UNCHANGED <<item, okReturns, errReturns, adm>>
    /\ UNCHANGED <<store, history, adminCalls, created, deleted>>

\* GetInventoryHandler serves a request; a POST is not routed to it.
ServeGetInventory(a) ==
    /\ adm[a].pc = "idle"
    /\ adminCalls < MaxAdminCalls
    /\ adminCalls' = adminCalls + 1
    /\ \E req \in InventoryRequests :
          LET handler   == Route(req.method, req.path)
              productID == PathString(InventoryProductID(req.path))
              r         == GetByProductID(inventory, productID)
              err       == IF r.err # Nil THEN Wrap(GetInventoryFailedMsg, r.err) ELSE Nil
          IN  IF handler # "GetInventoryHandler"
              THEN Answers(405)
              ELSE /\ ret' = err
                   /\ got' = Values("GetInventory", productID, NoProduct, r.item)
                   /\ response' = Respond(req, err)
                   /\ UNCHANGED <<adm, request>>
    /\ UNCHANGED <<store, history, callers, created, deleted>>

\* CreateProductHandler serves a request: it decodes the body and calls
\* CreateProduct, whose product.Validate() refuses an invalid product.
ServeCreateProduct(a) ==
    /\ adm[a].pc = "idle"
    /\ adminCalls < MaxAdminCalls
    /\ adminCalls' = adminCalls + 1
    /\ \E req \in CreateRequests :
          /\ Route(req.method, req.path) = "CreateProductHandler"
          /\ IF ~req.decodes
             THEN Answers(400)
             ELSE IF ProductValidate(req.product) # Nil
             THEN /\ ret' = Wrap("invalid product", ProductValidate(req.product))
                  /\ response' = Respond(req, Wrap("invalid product",
                                                   ProductValidate(req.product)))
                  /\ got' = Values("CreateProduct", "", NoProduct, NoItem)
                  /\ UNCHANGED <<adm, request>>
             ELSE /\ created + Cardinality({b \in Admins : adm[b].pc = "cp_product"})
                         < MaxCreates
                  /\ adm' = [adm EXCEPT ![a] = [NoAdmin EXCEPT !.pc = "cp_product",
                                                               !.product = req.product,
                                                               !.location = req.location,
                                                               !.quantity = req.quantity]]
                  /\ request' = [request EXCEPT
                                  !.admin = @ \cup {[caller |-> a, req |-> req]}]
                  /\ ret' = NoRet
                  /\ response' = NoResponse
                  /\ got' = NoGot
    /\ UNCHANGED <<store, history, callers, created, deleted>>

\* The store holds product "p1"; one request for a stock operation and
\* the requests for CreateProduct and GetInventory are still to be served.
InitHTTP ==
    /\ InitStore(MaxInit, 0)
    /\ InitCallers
    /\ calls = MaxCalls - 1

NextHTTP ==
    \/ \E p \in StockCaller :
          \/ ServeStock(p)
          \/ ReadInventory(p)
          \/ ReadFail(p)
    \/ \E a \in Admins :
          \/ ServeGetInventory(a)
          \/ ServeCreateProduct(a)
          \/ InsertProduct(a)
          \/ InsertProductFail(a)
          \/ InsertInventory(a)
          \/ InsertInventoryFail(a)
          \/ DeleteCreatedProduct(a)
          \/ DeleteCreatedProductFail(a)
          \/ InsertInitialTransaction(a)
          \/ InsertInitialTransactionFail(a)

SpecHTTP == InitHTTP /\ [][NextHTTP]_vars

\* ------------------------------------------------------------ the domain
\* InventoryItems and Transactions handed to the repositories and to the
\* domain methods directly, the invalid ones included
ItemInputs ==
    [id : {"inv-p1", "inv-p3"}, product_id : {"", "p1", "p2"},
     quantity : -1..MaxQty, reserved : -1..MaxQty, location : Locations]

TransactionInputs ==
    [inventory_id : {"", "inv-p1"}, product_id : {"", "p1"},
     type : ValidTypes \cup {"", "ADJUST"}, quantity : -1..MaxQty,
     reference : References, notes : {""}]

\* a call of a domain method or of a repository returns err and values
DomainReturns(err, values) ==
    /\ adminCalls < MaxAdminCalls
    /\ adminCalls' = adminCalls + 1
    /\ ret' = err
    /\ got' = values
    /\ UNCHANGED <<products, skus, history, callers, adm, created, deleted, http>>

\* InventoryItem.AvailableQuantity is called on an item
CallAvailableQuantity ==
    \E quantity \in IntMin..IntMax, reserved \in IntMin..IntMax :
        LET i == [NoItem EXCEPT !.quantity = quantity, !.reserved = reserved]
        IN  /\ DomainReturns(NoRet, [NoGot EXCEPT !.kind = "AvailableQuantity",
                                                  !.inventory = i,
                                                  !.available = AvailableQuantity(i)])
            /\ UNCHANGED <<inventory, transactions>>

\* PostgresInventoryRepository.Create is called with an item
CallInventoryCreate ==
    \E i \in ItemInputs :
        LET id == IF i.product_id \in DOMAIN InventoryIDs
                  THEN InventoryIDs[i.product_id] ELSE "inv-p4"
            r  == InventoryCreate(products, inventory, i, id)
        IN  /\ inventory' = r.inventory
            /\ DomainReturns(r.err, [NoGot EXCEPT !.kind = "InventoryCreate",
                                                  !.inventory = i])
            /\ UNCHANGED transactions

\* PostgresInventoryRepository.Update is called with an item
CallInventoryUpdate ==
    \E i \in ItemInputs :
        LET r == InventoryUpdate(inventory, i)
        IN  /\ inventory' = r.inventory
            /\ DomainReturns(r.err, [NoGot EXCEPT !.kind = "InventoryUpdate",
                                                  !.inventory = i])
            /\ UNCHANGED transactions

\* PostgresTransactionRepository.Create is called with a Transaction
CallTransactionCreate ==
    \E t \in TransactionInputs :
        LET r == TransactionCreate(transactions, t)
        IN  /\ transactions' = r.transactions
            /\ DomainReturns(r.err, [NoGot EXCEPT !.kind = "TransactionCreate",
                                                  !.transactions = <<t>>])
            /\ UNCHANGED inventory

\* The store holds product "p1" with its item and product "p2" whose item
\* is still to be created; one call is made.
InitDomain ==
    /\ products = {"p1", "p2"}
    /\ skus = [id \in {"p1", "p2"} |-> IF id = "p1" THEN "SKU-0" ELSE "SKU-1"]
    /\ inventory = [id \in {"inv-p1"} |->
                        [product_id |-> "p1", quantity |-> MaxInit, reserved |-> 0,
                         location |-> "WH-1"]]
    /\ transactions = <<InitialTransaction("inv-p1", "p1", MaxInit)>>
    /\ initial = [id \in {"inv-p1"} |-> MaxInit]
    /\ sums = [id \in {"inv-p1"} |-> NoSums]
    /\ unrecorded = [id \in {"inv-p1"} |-> 0]
    /\ pc = [p \in Procs |-> "idle"]
    /\ op = [p \in Procs |-> NoOp]
    /\ item = [p \in Procs |-> NoItem]
    /\ ret = NoRet
    /\ got = NoGot
    /\ okReturns = 0
    /\ errReturns = 0
    /\ calls = MaxCalls
    /\ adm = [a \in Admins |-> NoAdmin]
    /\ adminCalls = MaxAdminCalls - 1
    /\ created = 1
    /\ deleted = {}
    /\ request = [stock |-> {}, admin |-> {}]
    /\ response = NoResponse

NextDomain ==
    \/ CallAvailableQuantity
    \/ CallInventoryCreate
    \/ CallInventoryUpdate
    \/ CallTransactionCreate

SpecDomain == InitDomain /\ [][NextDomain]_vars

\* ------------------------------------------------------------ the SKUs
\* valid arguments of CreateProduct and UpdateProduct: the SKU of product
\* "p1" and a new one
SkuInputs == {[name |-> "Widget", sku |-> k, price |-> 10] : k \in {"SKU-0", "SKU-1"}}

\* UpdateProduct: product.Validate(), then s.productRepo.Update
UpdateProduct(a) ==
    /\ adm[a].pc = "idle"
    /\ adminCalls < MaxAdminCalls
    /\ adminCalls' = adminCalls + 1
    /\ \E productID \in ProductIDs, product \in SkuInputs \cup ProductInputs :
          IF ProductValidate(product) # Nil
          THEN /\ AdminReturns(a, Wrap("invalid product", ProductValidate(product)),
                               Values("UpdateProduct", productID, NoProduct, NoItem))
               /\ UNCHANGED skus
          ELSE LET r == ProductUpdate(products, product, productID)
               IN  /\ skus' = r.skus
                   /\ AdminReturns(a, IF r.err # Nil
                                      THEN Wrap("failed to update product", r.err)
                                      ELSE Nil,
                                   Values("UpdateProduct", productID, NoProduct, NoItem))
    /\ UNCHANGED <<products, inventory, transactions, history, callers, created, deleted>>

\* The store holds product "p1"; two CreateProduct calls have each validated
\* their product and are about to insert it; one more lifecycle operation is
\* still to be called.
InitSku ==
    /\ InitStore(MaxInit, 0)
    /\ pc = [p \in Procs |-> "idle"]
    /\ op = [p \in Procs |-> NoOp]
    /\ item = [p \in Procs |-> NoItem]
    /\ ret = NoRet
    /\ got = NoGot
    /\ okReturns = 0
    /\ errReturns = 0
    /\ calls = MaxCalls
    /\ adm \in [Admins -> {[NoAdmin EXCEPT !.pc = "cp_product", !.product = product,
                                           !.location = location,
                                           !.quantity = MaxInit] :
                               product \in SkuInputs, location \in Locations}]
    /\ adminCalls = MaxAdminCalls - 1
    /\ created = 0
    /\ deleted = {}
    /\ request = [stock |-> {}, admin |-> {}]
    /\ response = NoResponse

NextSku ==
    \E a \in Admins :
        \/ InsertProduct(a)
        \/ InsertInventory(a)
        \/ DeleteCreatedProduct(a)
        \/ InsertInitialTransaction(a)
        \/ UpdateProduct(a)
        \/ DeleteProduct(a)

SpecSku == InitSku /\ [][NextSku]_vars

\* ------------------------------------------------------------ the pair
\* Two callers have each started a stock operation on product "p1" and are
\* about to read its item; one DeleteProduct is still to be called.
InitPair ==
    /\ \E q0 \in 0..MaxRaceInit, r0 \in 0..MaxQty : r0 <= q0 /\ InitStore(q0, r0)
    /\ \E k1, k2 \in OpKinds, n1, n2 \in 1..MaxQty :
          op = [p \in Procs |->
                  IF p = 1
                  THEN [kind |-> k1, productID |-> "p1", quantity |-> n1,
                        reference |-> "ORDER-001"]
                  ELSE IF p = 2
                  THEN [kind |-> k2, productID |-> "p1", quantity |-> n2,
                        reference |-> "ORDER-001"]
                  ELSE NoOp]
    /\ pc = [p \in Procs |-> IF p \in {1, 2} THEN "read" ELSE "idle"]
    /\ item = [p \in Procs |-> NoItem]
    /\ ret = NoRet
    /\ got = NoGot
    /\ okReturns = 0
    /\ errReturns = 0
    /\ calls = MaxCalls
    /\ adm = [a \in Admins |-> NoAdmin]
    /\ adminCalls = MaxAdminCalls - 1
    /\ created = 0
    /\ deleted = {}
    /\ request = [stock |-> {}, admin |-> {}]
    /\ response = NoResponse

NextPair ==
    \/ \E p \in Procs :
          \/ ReadInventory(p)
          \/ Update(p)
          \/ UpdateFail(p)
          \/ Record(p)
    \/ \E a \in Admins : DeleteProduct(a)

SpecPair == InitPair /\ [][NextPair]_vars

\* ------------------------------------------------------------ one at a time
\* A stock operation is called only when no other is in progress, as the
\* service tests call them; every store access succeeds.
CallAlone(p) ==
    /\ \A q \in Procs : pc[q] = "idle"
    /\ Call(p)

NextAlone ==
    \E p \in Procs :
        \/ CallAlone(p)
        \/ ReadInventory(p)
        \/ Update(p)
        \/ Record(p)

SpecAlone == Init /\ [][NextAlone]_vars

\* ==================================================================== claims
Rows == DOMAIN inventory

\* the first message of an error
Kind(err) == IF err = Nil THEN "nil" ELSE err[1]

\* C1: in every reachable state every InventoryItem has 0 <= reserved <=
\* quantity, however the store accesses of concurrent AddStock, RemoveStock,
\* ReserveStock and UnreserveStock calls on the item interleave.
C1_ReservedWithinQuantity ==
    \A id \in Rows :
        /\ 0 <= inventory[id].reserved
        /\ inventory[id].reserved <= inventory[id].quantity

\* C1 witness: while one call sits between its update and its insert, another
\* call on the same item has passed its check on a stale read and is about
\* to issue an update that would push reserved above quantity.
C1_Witness ==
    \E p, q \in Procs :
        /\ p # q
        /\ pc[p] = "record" /\ pc[q] = "update"
        /\ item[p].id = item[q].id
        /\ item[q].id \in Rows
        /\ LET row == inventory[item[q].id]
               n == op[q].quantity
           IN  \/ op[q].kind = "RemoveStock" /\ row.quantity - n < row.reserved
               \/ op[q].kind = "ReserveStock" /\ row.quantity < row.reserved + n

\* C3: conservation: quantity is the initial quantity plus the applied
\* AddStock quantities minus the applied RemoveStock quantities, reserved is
\* the applied ReserveStock minus the applied UnreserveStock quantities;
\* rejected calls contribute nothing.
C3_Conservation ==
    \A id \in Rows :
        /\ inventory[id].quantity = initial[id] + sums[id].add - sums[id].remove
        /\ inventory[id].reserved = sums[id].reserve - sums[id].unreserve

\* C3 witness: a RemoveStock has just been rejected by the store while
\* another removal and nothing else changed the quantity.
C3_Witness ==
    /\ ret = Wrap("failed to update quantity", ErrZeroRows)
    /\ \E id \in Rows : sums[id].remove > 0 /\ sums[id].add = 0

\* the balances after one ledger entry
ApplyEntry(t, bal) ==
    CASE t.type = "IN"        -> [bal EXCEPT !.quantity = @ + t.quantity]
      [] t.type = "OUT"       -> [bal EXCEPT !.quantity = @ - t.quantity]
      [] t.type = "RESERVE"   -> [bal EXCEPT !.reserved = @ + t.quantity]
      [] t.type = "UNRESERVE" -> [bal EXCEPT !.reserved = @ - t.quantity]
      [] OTHER                -> bal

RECURSIVE Replay(_, _)
\* the balances after the ledger entries txs, oldest first
Replay(txs, bal) ==
    IF txs = <<>> THEN bal ELSE Replay(Tail(txs), ApplyEntry(Head(txs), bal))

LedgerOf(productID) == SelectSeq(transactions, LAMBDA t : t.product_id = productID)

\* replaying the product's ledger from the empty item (the INITIAL_STOCK
\* entry is part of the ledger) gives the item's balances
Agrees(id) ==
    Replay(LedgerOf(inventory[id].product_id), [quantity |-> 0, reserved |-> 0])
        = [quantity |-> inventory[id].quantity, reserved |-> inventory[id].reserved]

\* every update applied to the item has had its Transaction inserted
Settled(id) ==
    /\ unrecorded[id] = 0
    /\ \A p \in Procs : ~(pc[p] = "record" /\ item[p].id = id)

GuardRejections(kind) ==
    {<<"insufficient stock available">>,
     <<"insufficient stock available for reservation">>,
     <<"insufficient reserved stock">>,
     Wrap(UpdateFailedMsg(kind), ErrZeroRows)}

\* C5: a RemoveStock, ReserveStock or UnreserveStock call rejected because
\* its guard does not hold (by its own check or by the conditional update
\* changing no row) leaves quantity, reserved and the Transactions unchanged:
\* neither the step that rejects it nor its read before changes them.
C5_RejectionChangesNothing ==
    [][\A p \in Procs :
          /\ ( /\ op[p].kind \in {"RemoveStock", "ReserveStock", "UnreserveStock"}
               /\ pc[p] \in {"read", "update"}
               /\ pc'[p] = "idle"
               /\ ret' \in GuardRejections(op[p].kind) )
             => (inventory' = inventory /\ transactions' = transactions)
          /\ (pc[p] = "read" /\ pc'[p] # "read")
             => (inventory' = inventory /\ transactions' = transactions)
       ]_vars

\* C5 witness: an UnreserveStock that passed its check has just been
\* rejected by the conditional update.
C5_Witness ==
    /\ ret = Wrap("failed to unreserve stock", ErrZeroRows)
    /\ \E id \in Rows : sums[id].unreserve > 0 /\ inventory[id].reserved = 0

\* the Transaction type the claim gives each operation
ClaimedType(kind) ==
    CASE kind = "AddStock"       -> "IN"
      [] kind = "RemoveStock"    -> "OUT"
      [] kind = "ReserveStock"   -> "RESERVE"
      [] kind = "UnreserveStock" -> "UNRESERVE"
      [] OTHER                   -> "none"

\* C6: a stock operation that returns success has appended exactly one
\* Transaction: its last step appends one entry for the call's product and
\* item, of the operation's type, with the call's quantity and reference, and
\* no other step of a call appends or changes an entry.
C6_SuccessAppendsOneTransaction ==
    [][/\ \A p \in Procs :
             (pc[p] # "idle" /\ pc'[p] = "idle" /\ ret' = Nil)
             => /\ pc[p] = "record"
                /\ Len(transactions') = Len(transactions) + 1
                /\ SubSeq(transactions', 1, Len(transactions)) = transactions
                /\ LET t == transactions'[Len(transactions')]
                   IN  /\ t.product_id = op[p].productID
                       /\ t.inventory_id \in Rows
                       /\ inventory[t.inventory_id].product_id = op[p].productID
                       /\ t.type = ClaimedType(op[p].kind)
                       /\ t.quantity = op[p].quantity
                       /\ t.reference = op[p].reference
       /\ ret' = Nil => \E p \in Procs : pc[p] = "record" /\ pc'[p] = "idle"
       /\ transactions' # transactions
             => (ret' = Nil /\ \E p \in Procs : pc[p] = "record" /\ pc'[p] = "idle")
      ]_vars

\* C6 witness: a RemoveStock has just returned success and its OUT entry is
\* the newest of the ledger.
C6_Witness ==
    /\ ret = Nil
    /\ Len(transactions) >= 2
    /\ transactions[Len(transactions)].type = "OUT"
    /\ transactions[Len(transactions)].reference = "ORDER-001"

\* the error kinds of the outcomes in which nothing was applied: validation,
\* item not found or unreadable, guard violation, failed update
NothingAppliedKinds ==
    {"quantity must be positive", "failed to get inventory",
     "insufficient stock available", "insufficient stock available for reservation",
     "insufficient reserved stock", "failed to update quantity",
     "failed to reserve stock", "failed to unreserve stock"}

\* C7: when the Transaction insert fails after the update was applied, the
\* change of quantity/reserved stays (the step changes no row) and the error
\* returned is of a kind no outcome without an applied update returns; every
\* return of a call that applied nothing is of one of those other kinds.
C7_AuditFailureReportedApart ==
    [][\A p \in Procs :
          /\ (pc[p] = "record" /\ pc'[p] = "idle" /\ transactions' = transactions)
             => /\ inventory' = inventory
                /\ ret' # Nil
                /\ Kind(ret') \notin NothingAppliedKinds
          /\ ( /\ pc[p] \in {"idle", "read", "update"}
               /\ pc'[p] = "idle"
               /\ op'[p] = NoOp
               /\ (pc[p] = "idle" => calls' # calls /\ \A q \in Procs : pc'[q] = pc[q])
               /\ ret' # NoRet )
             => Kind(ret') \in NothingAppliedKinds
      ]_vars

\* C7 witness: a RemoveStock has just returned the audit failure and the
\* quantity it removed stays removed.
C7_Witness ==
    /\ Kind(ret) = "failed to record transaction"
    /\ \E id \in Rows :
          /\ unrecorded[id] = 1
          /\ sums[id].remove > 0
          /\ inventory[id].quantity = initial[id] - sums[id].remove

\* the ledger entries written by the calls of the behaviour (the entries of
\* the initial state carry an earlier reference)
EntriesOfCalls ==
    {i \in 1..Len(transactions) : transactions[i].reference \in References}

\* C2: of two concurrent RemoveStock/ReserveStock calls on one item, each
\* fitting the available quantity alone but not both together, exactly one
\* is applied and returns success and the other is rejected, in every
\* interleaving: once both have returned there is one success and one error,
\* and the balances are those of the start changed by the one entry the
\* successful call recorded.
C2_ExactlyOneWins ==
    (\A p \in Procs : pc[p] = "idle")
    => /\ okReturns = 1
       /\ errReturns = 1
       /\ Cardinality(EntriesOfCalls) = 1
       /\ \A id \in Rows : Agrees(id)

\* C2 witness: two RemoveStock calls both passed their check on the same
\* read, one removed its quantity and the other has just been rejected by
\* the store.
C2_Witness ==
    /\ \A p \in Procs : pc[p] = "idle"
    /\ okReturns = 1
    /\ ret = Wrap("failed to update quantity", ErrZeroRows)
    /\ \E id \in Rows :
          /\ sums[id].remove > 0
          /\ inventory[id].quantity = initial[id] - sums[id].remove

\* C8: RemoveStock(productID, n) is applied only if quantity - reserved >= n
\* holds in the store at the moment of the update, and then lowers quantity
\* by exactly n and leaves reserved unchanged; a call whose guard is
\* evaluated and does not hold fails with the insufficient-stock error and
\* changes nothing.
C8_RemoveStock ==
    [][\A p \in Procs :
          op[p].kind = "RemoveStock" =>
          LET n   == op[p].quantity
              cur == GetByProductID(inventory, op[p].productID).item
          IN  /\ (pc[p] = "update" /\ pc'[p] = "record")
                 => LET row  == inventory[item[p].id]
                        row2 == inventory'[item[p].id]
                    IN  /\ row.quantity - row.reserved >= n
                        /\ row2.quantity = row.quantity - n /\ row2.reserved = row.reserved
              /\ ( /\ pc[p] = "update" /\ pc'[p] = "idle"
                   /\ ret' # Wrap(UpdateFailedMsg("RemoveStock"), ErrExecUpdateFailed) )
                 => /\ LET row == inventory[item[p].id] IN row.quantity - row.reserved < n
                    /\ inventory' = inventory
                    /\ ret' = <<"insufficient stock available">>
              /\ ( /\ pc[p] = "read" /\ pc'[p] = "idle"
                   /\ Kind(ret') # "failed to get inventory" )
                 => /\ LET row == cur IN row.quantity - row.reserved < n
                    /\ inventory' = inventory
                    /\ ret' = <<"insufficient stock available">>
      ]_vars

\* C9: ReserveStock(productID, n) is applied only if quantity - reserved >= n
\* holds in the store at the moment of the update, and then raises reserved
\* by exactly n, leaves quantity unchanged and lowers AvailableQuantity by n;
\* a call whose guard is evaluated and does not hold fails with the
\* insufficient-stock error and changes nothing.
C9_ReserveStock ==
    [][\A p \in Procs :
          op[p].kind = "ReserveStock" =>
          LET n   == op[p].quantity
              cur == GetByProductID(inventory, op[p].productID).item
          IN  /\ (pc[p] = "update" /\ pc'[p] = "record")
                 => LET row  == inventory[item[p].id]
                        row2 == inventory'[item[p].id]
                    IN  /\ row.quantity - row.reserved >= n
                        /\ row2.reserved = row.reserved + n /\ row2.quantity = row.quantity
                        /\ AvailableQuantity(row2) = AvailableQuantity(row) - n
              /\ ( /\ pc[p] = "update" /\ pc'[p] = "idle"
                   /\ ret' # Wrap(UpdateFailedMsg("ReserveStock"), ErrExecUpdateFailed) )
                 => /\ LET row == inventory[item[p].id] IN row.quantity - row.reserved < n
                    /\ inventory' = inventory
                    /\ ret' = <<"insufficient stock available for reservation">>
              /\ ( /\ pc[p] = "read" /\ pc'[p] = "idle"
                   /\ Kind(ret') # "failed to get inventory" )
                 => /\ LET row == cur IN row.quantity - row.reserved < n
                    /\ inventory' = inventory
                    /\ ret' = <<"insufficient stock available for reservation">>
      ]_vars

\* C10: UnreserveStock(productID, n) is applied only if reserved >= n holds in
\* the store at the moment of the update, and then lowers reserved by exactly
\* n and leaves quantity unchanged; a call whose guard is evaluated and does
\* not hold fails with the insufficient-reserved-stock error and changes
\* nothing.
C10_UnreserveStock ==
    [][\A p \in Procs :
          op[p].kind = "UnreserveStock" =>
          LET n   == op[p].quantity
              cur == GetByProductID(inventory, op[p].productID).item
          IN  /\ (pc[p] = "update" /\ pc'[p] = "record")
                 => LET row  == inventory[item[p].id]
                        row2 == inventory'[item[p].id]
                    IN  /\ row.reserved >= n
                        /\ row2.reserved = row.reserved - n /\ row2.quantity = row.quantity
              /\ ( /\ pc[p] = "update" /\ pc'[p] = "idle"
                   /\ ret' # Wrap(UpdateFailedMsg("UnreserveStock"), ErrExecUpdateFailed) )
                 => /\ LET row == inventory[item[p].id] IN row.reserved < n
                    /\ inventory' = inventory
                    /\ ret' = <<"insufficient reserved stock">>
              /\ ( /\ pc[p] = "read" /\ pc'[p] = "idle"
                   /\ Kind(ret') # "failed to get inventory" )
                 => /\ LET row == cur IN row.reserved < n
                    /\ inventory' = inventory
                    /\ ret' = <<"insufficient reserved stock">>
      ]_vars

\* the errors of a store access that failed (store unavailable)
StoreFailures ==
    {Wrap(GetInventoryFailedMsg, ErrGetItemFailed),
     Wrap("failed to update quantity", ErrExecUpdateFailed),
     Wrap("failed to reserve stock", ErrExecUpdateFailed),
     Wrap("failed to unreserve stock", ErrExecUpdateFailed),
     Wrap(RecordFailedMsg, ErrCreateTransaction)}

\* C11: AddStock(p, n) with n > 0 on a product whose InventoryItem exists
\* succeeds whatever other stock operations run concurrently: unless a store
\* access itself fails, its read goes on to the update, its update is applied
\* (quantity raised by exactly n, reserved unchanged) and its last step
\* appends an IN transaction of quantity n and returns success.
C11_AddStockAlwaysApplies ==
    [][\A p \in Procs :
          ( /\ op[p].kind = "AddStock"
            /\ pc[p] # "idle"
            /\ pc'[p] # pc[p]
            /\ GetByProductID(inventory, op[p].productID).err = Nil
            /\ ret' \notin StoreFailures )
          => LET n  == op[p].quantity
                 id == GetByProductID(inventory, op[p].productID).item.id
             IN  CASE pc[p] = "read" ->
                        pc'[p] = "update" /\ item'[p].id = id
                   [] pc[p] = "update" ->
                        /\ pc'[p] = "record"
                        /\ inventory'[id].quantity = inventory[id].quantity + n
                        /\ inventory'[id].reserved = inventory[id].reserved
                   [] pc[p] = "record" ->
                        /\ ret' = Nil
                        /\ Len(transactions') = Len(transactions) + 1
                        /\ SubSeq(transactions', 1, Len(transactions)) = transactions
                        /\ LET t == transactions'[Len(transactions')]
                           IN  /\ t.type = "IN"
                               /\ t.quantity = n
                               /\ t.product_id = op[p].productID
                               /\ t.inventory_id = id
      ]_vars

\* C11 witness: an AddStock has just returned success on an item whose
\* reserved equals its initial quantity (a reservation ran beside it).
C11_Witness ==
    /\ ret = Nil
    /\ transactions[Len(transactions)].type = "IN"
    /\ transactions[Len(transactions)].reference \in References
    /\ \E id \in Rows :
          /\ sums[id].add > 0
          /\ inventory[id].reserved = initial[id]
          /\ initial[id] > 0

\* C12: a stock operation called with quantity <= 0 returns an error before
\* any store access: only calls with a positive quantity ever go on to read
\* the item, and the step that returns the validation error reads no item,
\* changes no row and appends no Transaction.
C12_NonPositiveQuantityRejectedFirst ==
    [][/\ \A p \in Procs :
             (pc[p] = "idle" /\ pc'[p] # "idle")
             => (pc'[p] = "read" /\ op'[p].quantity > 0)
       /\ ret' = ErrQuantityMustBePositive
             => /\ \A p \in Procs : pc'[p] = pc[p]
                /\ calls' = calls + 1
                /\ item' = item
                /\ inventory' = inventory
                /\ transactions' = transactions
                /\ products' = products
      ]_vars

\* C12 witness: a call has just been refused for its quantity while another
\* call was between its update and its insert.
C12_Witness ==
    /\ ret = ErrQuantityMustBePositive
    /\ \E p \in Procs : pc[p] = "record"

\* C13 as stated: when the conditional update changes no row because the
\* guard fails on the stored row, the call returns the domain error its own
\* check returns for that row (insufficient stock / insufficient reserved
\* stock), an error unlike the one of a missing item or of a store failure.
C13_ZeroRowsTranslated ==
    [][\A p \in Procs :
          ( /\ pc[p] = "update"
            /\ pc'[p] = "idle"
            /\ item[p].id \in Rows
            /\ ~UpdateGuard(inventory[item[p].id],
                            Deltas(op[p].kind, op[p].quantity)[1],
                            Deltas(op[p].kind, op[p].quantity)[2])
            /\ ret' \notin StoreFailures )
          => /\ ret' = PreCheck(op[p].kind,
                                GetByProductID(inventory, op[p].productID).item,
                                op[p].quantity)
             /\ ret' # Nil
             /\ Kind(ret') # GetInventoryFailedMsg
      ]_vars

\* the InventoryItems of a product in a table inventory
ItemsOf(inv, productID) == {id \in DOMAIN inv : inv[id].product_id = productID}

\* the positions of the Transactions of a product in a table transactions
EntriesOf(txs, productID) == {i \in 1..Len(txs) : txs[i].product_id = productID}

\* caller a's CreateProduct returns success in this step
CreateSucceeds(a) ==
    /\ adm[a].pc \in {"cp_inventory", "cp_tx"}
    /\ adm'[a].pc = "idle"
    /\ ret' = Nil

\* C14 as stated: whenever CreateProduct(product, location, q) returns
\* success the store holds the product, exactly one InventoryItem for it with
\* quantity q and reserved 0, and exactly one Transaction for it (IN, q,
\* INITIAL_STOCK) if q > 0, none if q = 0.
C14_CreateProductEstablishes ==
    [][\A a \in Admins :
          CreateSucceeds(a)
          => LET pid == adm[a].productID
                 q   == adm[a].quantity
             IN  /\ pid \in products'
                 /\ Cardinality(ItemsOf(inventory', pid)) = 1
                 /\ \A id \in ItemsOf(inventory', pid) :
                       inventory'[id].quantity = q /\ inventory'[id].reserved = 0
                 /\ Cardinality(EntriesOf(transactions', pid)) = (IF q > 0 THEN 1 ELSE 0)
                 /\ \A i \in EntriesOf(transactions', pid) :
                       /\ transactions'[i].type = "IN"
                       /\ transactions'[i].quantity = q
                       /\ transactions'[i].reference = "INITIAL_STOCK"
      ]_vars

\* C15 as stated: in no reachable state, the intermediate states of
\* CreateProduct included, is there a Product without an InventoryItem.
C15_ProductHasInventory ==
    \A pid \in products : ItemsOf(inventory, pid) # {}

\* what the claim calls a valid product
ValidProduct(product) ==
    product.name # "" /\ product.sku # "" /\ product.price >= 0

\* C16: CreateProduct with an invalid product (empty name, empty SKU or
\* negative price) returns an error before any store access: only calls with
\* a valid product ever go on to the insert of the Product row, and the step
\* that returns the validation error creates no Product, InventoryItem or
\* Transaction.
C16_InvalidProductRejectedFirst ==
    [][/\ \A a \in Admins :
             /\ (adm[a].pc = "idle" /\ adm'[a].pc = "cp_product")
                => ValidProduct(adm'[a].product)
             /\ (adm[a].pc = "cp_product" /\ adm'[a].pc # "cp_product")
                => ValidProduct(adm[a].product)
       /\ Kind(ret') = "invalid product"
             => /\ adm' = adm
                /\ adminCalls' = adminCalls + 1
                /\ products' = products
                /\ inventory' = inventory
                /\ transactions' = transactions
      ]_vars

\* C16 witness: a CreateProduct has just been refused for the negative price
\* of its product while another CreateProduct was between its two inserts.
C16_Witness ==
    /\ ret = Wrap("invalid product", <<"product price cannot be negative">>)
    /\ got.kind = "CreateProduct"
    /\ \E a \in Admins : adm[a].pc = "cp_inventory"

\* C17 as stated: CreateProduct with a valid product and malformed
\* InventoryItem fields (empty location or negative initial quantity) is
\* rejected without the Product row ever having been written: the insert of
\* the Product row is only made by calls whose location is not empty and
\* whose initial quantity is not negative.
C17_InvalidItemRejectedBeforeInsert ==
    [][\A a \in Admins :
          (adm[a].pc = "cp_product" /\ products' # products)
          => (adm[a].location # "" /\ adm[a].quantity >= 0)
      ]_vars

\* C18: after DeleteProduct(p) succeeded no InventoryItem and no Transaction
\* referencing p exists, then and ever after, also when stock operations on
\* p were in flight during the deletion: every step such an operation takes
\* once p is deleted returns an error and writes nothing.
C18_DeletedStaysDeleted ==
    [][/\ \A pid \in deleted' :
             /\ pid \notin products'
             /\ ItemsOf(inventory', pid) = {}
             /\ EntriesOf(transactions', pid) = {}
             /\ \A i \in 1..Len(transactions') :
                   transactions'[i].inventory_id # InventoryIDs[pid]
       /\ \A p \in Procs :
             (pc[p] # "idle" /\ pc'[p] # pc[p] /\ op[p].productID \in deleted)
             => /\ pc'[p] = "idle"
                /\ ret' # Nil
                /\ inventory' = inventory
                /\ transactions' = transactions
      ]_vars

\* C18 witness: a stock operation on p1 had applied its update when p1 was
\* deleted; its Transaction insert has just been refused.
C18_Witness ==
    /\ "p1" \in deleted
    /\ ret = Wrap(RecordFailedMsg, ErrTransactionForeignKey)
    /\ transactions = <<>>

\* the not-found errors of the operations
NotFoundErrors ==
    {Wrap("failed to get inventory", <<"inventory item not found">>),
     Wrap("failed to get product", <<"product not found">>)}

\* C19: an operation addressed to a product id without InventoryItem (or,
\* for GetProduct, without Product) in the store when the operation looks it
\* up returns a not-found error, GetProduct and GetInventory with nil
\* values, and leaves the store unchanged.
C19_MissingProductNotFound ==
    [][/\ \A p \in Procs :
             ( /\ pc[p] = "read"
               /\ pc'[p] # "read"
               /\ ItemsOf(inventory, op[p].productID) = {} )
             => /\ pc'[p] = "idle"
                /\ ret' \in NotFoundErrors
                /\ store' = store
       /\ \A a \in Admins :
             (adm[a].pc = "idle" /\ adm'[a].pc = "gp_inventory")
             => adm'[a].productID \in products
       /\ ( /\ got'.kind \in {"GetProduct", "GetInventory"}
            /\ ItemsOf(inventory, got'.productID) = {}
                  \/ (got'.kind = "GetProduct" /\ got'.productID \notin products) )
             => /\ ret' \in NotFoundErrors
                /\ got'.product = NoProduct
                /\ got'.inventory = NoItem
                /\ store' = store
      ]_vars

\* C19 witness: a GetProduct found the Product row of a product whose
\* InventoryItem does not exist and has just returned the not-found error of
\* the item.
C19_Witness ==
    /\ got.kind = "GetProduct"
    /\ got.productID \in products
    /\ ret = Wrap("failed to get inventory", <<"inventory item not found">>)

\* s is an initial part of t
IsPrefix(s, t) == Len(s) <= Len(t) /\ SubSeq(t, 1, Len(s)) = s

\* the Transactions of a product in a table transactions, oldest first
LedgerIn(txs, productID) == SelectSeq(txs, LAMBDA t : t.product_id = productID)

\* C20: Transactions are append-only: a step either leaves every inserted
\* Transaction in place and unchanged (new ones come after them) or, when it
\* deletes Products, removes exactly the Transactions of those Products; the
\* ledger of a product that exists before and after a step only grows.
C20_TransactionsAppendOnly ==
    [][/\ products \subseteq products' => IsPrefix(transactions, transactions')
       /\ ~(products \subseteq products')
             => transactions' = SelectSeq(transactions,
                                          LAMBDA t : t.product_id \in products')
       /\ \A pid \in products \cap products' :
             IsPrefix(LedgerIn(transactions, pid), LedgerIn(transactions', pid))
      ]_vars

\* C20 witness: product p2 was created with initial stock and deleted
\* again while the ledger of p1 kept its entries and got one more.
C20_Witness ==
    /\ "p2" \in deleted
    /\ Len(transactions) >= 2
    /\ \A i \in 1..Len(transactions) : transactions[i].product_id = "p1"

\* C21: GetInventory(p) is a pure read: the step changes nothing in the
\* store, and what it returns is the quantity, reserved and location of the
\* committed row of p, so two calls between which that row did not change
\* return identical values.
C21_GetInventoryPureRead ==
    [][got'.kind = "GetInventory"
       => /\ store' = store
          /\ history' = history
          /\ ret' = Nil
                => \E id \in DOMAIN inventory :
                      /\ inventory[id].product_id = got'.productID
                      /\ got'.inventory.id = id
                      /\ got'.inventory.product_id = got'.productID
                      /\ got'.inventory.quantity = inventory[id].quantity
                      /\ got'.inventory.reserved = inventory[id].reserved
                      /\ got'.inventory.location = inventory[id].location
      ]_vars

\* C21 witness: GetInventory returned the item of p1 after a ReserveStock on
\* it was applied.
C21_Witness ==
    /\ got.kind = "GetInventory"
    /\ ret = Nil
    /\ got.productID = "p1"
    /\ got.inventory.reserved > 0
    /\ got.inventory.location = "WH-1"

\* C22: ListTransactions(p, limit, offset) returns only Transactions of p,
\* newest first, without the offset newest ones and at most limit of them,
\* and changes nothing; with offset 0 and a limit that covers them all every
\* Transaction of p in the store is returned, the one a stock operation
\* just appended included.
C22_ListTransactionsNewestFirst ==
    [][(got'.kind = "ListTransactions" /\ ret' = Nil)
       => LET L      == got'.transactions
              ledger == LedgerIn(transactions, got'.productID)
              n      == Len(ledger)
              rest   == IF n > got'.offset THEN n - got'.offset ELSE 0
          IN  /\ store' = store
              /\ \A i \in 1..Len(L) : L[i].product_id = got'.productID
              /\ Len(L) <= got'.limit
              /\ Len(L) = IF rest < got'.limit THEN rest ELSE got'.limit
              /\ \A i \in 1..Len(L) : L[i] = ledger[n - got'.offset - i + 1]
              /\ (got'.offset = 0 /\ got'.limit >= n)
                    => \A j \in 1..n : \E i \in 1..Len(L) : L[i] = ledger[j]
      ]_vars

\* C22 witness: a page of two of the three Transactions of p1 was returned,
\* the newer one by the stock operation that has just succeeded.
C22_Witness ==
    /\ got.kind = "ListTransactions"
    /\ ret = Nil
    /\ okReturns = 1
    /\ got.productID = "p1"
    /\ got.offset = 0
    /\ got.limit = 2
    /\ Len(got.transactions) = 2
    /\ got.transactions[1].reference = "ORDER-001"
    /\ got.transactions[2].reference = "ORDER-000"

\* C23: AvailableQuantity of an item is max(quantity - reserved, 0) for all
\* integers quantity and reserved, 0 when reserved exceeds quantity.
C23_AvailableQuantityIsMax ==
    [][got'.kind = "AvailableQuantity"
       => LET q == got'.inventory.quantity
              r == got'.inventory.reserved
          IN  /\ got'.available = IF q - r > 0 THEN q - r ELSE 0
              /\ r > q => got'.available = 0
      ]_vars

\* an item is valid: product id and location not empty, quantity >= 0 and
\* 0 <= reserved <= quantity
ValidItem(i) ==
    /\ i.product_id # ""
    /\ i.quantity >= 0
    /\ 0 <= i.reserved
    /\ i.reserved <= i.quantity
    /\ i.location # ""

\* C24: InventoryItem.Validate accepts exactly the valid items, and Create
\* and Update of the inventory repository return the validation error and
\* write nothing when the item is not valid.
C24_InvalidItemNotWritten ==
    [][got'.kind \in {"InventoryCreate", "InventoryUpdate"}
       => LET i == got'.inventory
          IN  /\ (InventoryItemValidate(i) = Nil) <=> ValidItem(i)
              /\ (Kind(ret') = "validation error") <=> ~ValidItem(i)
              /\ ~ValidItem(i) => store' = store
      ]_vars

\* C24 witness: an Update that puts reserved above quantity has just been
\* refused.
C24_Witness ==
    /\ got.kind = "InventoryUpdate"
    /\ got.inventory.id \in Rows
    /\ got.inventory.product_id # ""
    /\ got.inventory.location # ""
    /\ got.inventory.quantity >= 0
    /\ got.inventory.reserved > got.inventory.quantity
    /\ ret = <<"validation error", "reserved quantity cannot exceed total quantity">>

\* a Transaction is valid: inventory id and product id not empty, quantity
\* > 0, type one of the five
ValidTransaction(t) ==
    /\ t.inventory_id # ""
    /\ t.product_id # ""
    /\ t.quantity > 0
    /\ t.type \in {"IN", "OUT", "RESERVE", "UNRESERVE", "RETURN"}

\* C25: Transaction.Validate accepts exactly the valid Transactions (the
\* repository's Create returns the validation error for the others and
\* writes nothing), and every Transaction in the store has quantity > 0 and
\* one of the five types.
C25_OnlyValidTransactionsStored ==
    /\ [](\A n \in 1..Len(transactions) :
             /\ transactions[n].quantity > 0
             /\ transactions[n].type \in {"IN", "OUT", "RESERVE", "UNRESERVE", "RETURN"})
    /\ [][got'.kind = "TransactionCreate"
          => LET t == got'.transactions[1]
             IN  /\ (TransactionValidate(t) = Nil) <=> ValidTransaction(t)
                 /\ (Kind(ret') = "validation error") <=> ~ValidTransaction(t)
                 /\ ~ValidTransaction(t) => store' = store
                 /\ ret' = Nil => transactions' = Append(transactions, t)
         ]_vars

\* C25 witness: a RETURN Transaction was inserted, and a Transaction with
\* quantity 0 would be the next refused.
C25_Witness ==
    /\ got.kind = "TransactionCreate"
    /\ ret = Nil
    /\ got.transactions[1].type = "RETURN"
    /\ Len(transactions) = 2
    /\ transactions[2] = got.transactions[1]

\* an error that reports invalid input
IsValidationError(err) ==
    \E n \in 1..Len(err) :
        err[n] \in {"quantity must be positive", "invalid product", "validation error"}

\* an error that reports a guard that does not hold
IsGuardViolation(err) ==
    \E n \in 1..Len(err) :
        err[n] \in {"insufficient stock available",
                    "insufficient stock available for reservation",
                    "insufficient reserved stock",
                    "quantity update failed: invalid operation or item not found"}

\* an error that reports a failed store access
IsStoreFailure(err) == err # Nil /\ err[Len(err)] = "store unavailable"

\* C26: a stock operation or product creation that fails with a validation
\* error or a guard violation is answered with a 4xx status, and a 5xx
\* status answers store failures only.
C26_ClientErrorsAnswered4xx ==
    [][(response' # NoResponse /\ ret' # NoRet /\ ret' # Nil
        /\ got'.kind # "GetInventory")
       => /\ (IsValidationError(ret') \/ IsGuardViolation(ret'))
                => response' \in 400..499
          /\ response' \in 500..599 => IsStoreFailure(ret')
      ]_vars

\* C27: a request POST /api/products/{id}/stock/{operation} starts the
\* service operation of that name with productID = {id}.
C27_StockRouteUsesPathID ==
    [][\A p \in Procs :
          (/\ RequestOf(request.stock, p) = NoRequest
           /\ RequestOf(request'.stock, p) # NoRequest)
          => /\ op'[p].productID = RequestOf(request'.stock, p).id
             /\ HasSuffix(RequestOf(request'.stock, p).path,
                          StockPath(StockOperations[op'[p].kind]))
      ]_vars

\* the number of store accesses an operation at this position has made
Accesses(position) ==
    CASE position = "idle"         -> 0
      [] position = "read"         -> 0
      [] position = "update"       -> 1
      [] position = "record"       -> 2
      [] position = "cp_product"   -> 0
      [] position = "cp_inventory" -> 1
      [] position = "cp_cleanup"   -> 2
      [] position = "cp_tx"        -> 2
      [] position = "gp_inventory" -> 1

\* C28: every started operation terminates: each of its steps is one store
\* access that takes it further or makes it return (no step is repeated, none
\* waits for another caller), so that it returns after at most three store
\* accesses, provided each store access returns.
C28_OperationsTerminate ==
    /\ \A p \in Procs : (pc[p] # "idle") ~> (pc[p] = "idle")
    /\ \A a \in Admins : (adm[a].pc # "idle") ~> (adm[a].pc = "idle")
    /\ [][/\ \A p \in Procs :
                (pc[p] # "idle" /\ pc'[p] # "idle")
                => \/ pc'[p] = pc[p]
                   \/ Accesses(pc'[p]) = Accesses(pc[p]) + 1
          /\ \A a \in Admins :
                (adm[a].pc # "idle" /\ adm'[a].pc # "idle")
                => \/ adm'[a] = adm[a]
                   \/ Accesses(adm'[a].pc) = Accesses(adm[a].pc) + 1
          /\ \A p \in Procs : pc[p] # "idle" => ENABLED StockStep(p)
          /\ \A a \in Admins : adm[a].pc # "idle" => ENABLED AdminStep(a)
         ]_vars

\* C28 witness: a stock operation has returned after its third store access
\* while a CreateProduct is in progress.
C28_Witness ==
    /\ okReturns = 1
    /\ ret = Nil
    /\ \E a \in Admins : adm[a].pc = "cp_inventory"

\* the row an applied update of a stock operation leaves
Applied(row, kind, n) ==
    CASE kind = "AddStock"       -> [row EXCEPT !.quantity = @ + n]
      [] kind = "RemoveStock"    -> [row EXCEPT !.quantity = @ - n]
      [] kind = "ReserveStock"   -> [row EXCEPT !.reserved = @ + n]
      [] kind = "UnreserveStock" -> [row EXCEPT !.reserved = @ - n]

\* C29: a stock operation returns success only after its delta was applied
\* and its Transaction was inserted: an update step that changes no row (the
\* guard failed, the item is gone, or the statement failed) ends the
\* operation with an error and without a Transaction; the operation gets to
\* its Transaction insert only by the step that applied its delta to its
\* item; it returns success only from an insert that appended.
C29_SuccessOnlyIfApplied ==
    [][\A p \in Procs :
          /\ (pc[p] = "update" /\ pc'[p] # "update" /\ inventory' = inventory)
             => /\ pc'[p] = "idle"
                /\ ret' \notin {Nil, NoRet}
                /\ transactions' = transactions
          /\ (pc[p] # "record" /\ pc'[p] = "record")
             => /\ pc[p] = "update"
                /\ item[p].id \in Rows
                /\ inventory' = [inventory EXCEPT ![item[p].id] =
                                    Applied(@, op[p].kind, op[p].quantity)]
                /\ inventory' # inventory
          /\ (pc[p] # "idle" /\ pc'[p] = "idle" /\ ret' = Nil)
             => /\ pc[p] = "record"
                /\ Len(transactions') = Len(transactions) + 1
      ]_vars

\* C29 witness: of two concurrent RemoveStock calls one has returned
\* success, the update of the other has just changed no row.
C29_Witness ==
    /\ okReturns = 1
    /\ ret = Wrap("failed to update quantity", ErrZeroRows)
    /\ Len(transactions) = 2
    /\ transactions[2].type = "OUT"

\* C30: a store access of a stock operation that fails because the store is
\* unavailable ends the operation at once: the step returns the store's
\* error in the chain of the operation's error, the operation makes no
\* further store access, and a failed read or update leaves the item, the
\* Transactions and the products as they were.
C30_StoreFailureEndsOperation ==
    [][\A p \in Procs :
          (pc[p] # "idle" /\ pc'[p] # pc[p] /\ IsStoreFailure(ret'))
          => /\ pc'[p] = "idle"
             /\ op'[p] = NoOp
             /\ item'[p] = NoItem
             /\ inventory' = inventory
             /\ transactions' = transactions
             /\ products' = products
             /\ ret' \in StoreFailures
             /\ errReturns' = errReturns + 1
      ]_vars

\* C30 witness: the update of a RemoveStock has just failed and the item
\* still has its initial quantity and the ledger its initial entry only.
C30_Witness ==
    /\ ret = Wrap("failed to update quantity", ErrExecUpdateFailed)
    /\ errReturns = 1
    /\ okReturns = 0
    /\ \E id \in Rows : inventory[id].quantity = initial[id] /\ initial[id] > 0
    /\ Len(transactions) = 1

\* the (quantity, reserved) deltas the claim gives each operation
ClaimedDeltas(kind, n) ==
    CASE kind = "AddStock"       -> <<n, 0>>
      [] kind = "RemoveStock"    -> <<0 - n, 0>>
      [] kind = "ReserveStock"   -> <<0, n>>
      [] kind = "UnreserveStock" -> <<0, 0 - n>>
      [] OTHER                   -> <<0, 0>>

\* the three conditions of the claim hold on the current row of the item
DeltasFit(id, dq, dr) ==
    /\ id \in Rows
    /\ inventory[id].quantity + dq >= 0
    /\ inventory[id].reserved + dr >= 0
    /\ inventory[id].quantity + dq >= inventory[id].reserved + dr

\* C31: UpdateQuantity is a single atomic conditional update: the step in
\* which its statement executes adds the operation's deltas ((+n,0), (-n,0),
\* (0,+n), (0,-n)) to the item's row if and only if the row exists and
\* quantity+dq >= 0, reserved+dr >= 0 and quantity+dq >= reserved+dr hold on
\* the row as it is then; otherwise the step changes nothing and the call
\* returns an error.  No other step of a stock operation changes a row, so
\* AddStock/RemoveStock never change reserved and ReserveStock/UnreserveStock
\* never change quantity.
C31_UpdateQuantityConditional ==
    [][\A p \in Procs :
          /\ (pc[p] = "update" /\ pc'[p] # "update")
             => LET id == item[p].id
                    d  == ClaimedDeltas(op[p].kind, op[p].quantity)
                IN  /\ ret' # Wrap(UpdateFailedMsg(op[p].kind), ErrExecUpdateFailed)
                       => (pc'[p] = "record" <=> DeltasFit(id, d[1], d[2]))
                    /\ pc'[p] = "record"
                       => inventory' =
                            [inventory EXCEPT ![id] =
                                [@ EXCEPT !.quantity = @ + d[1], !.reserved = @ + d[2]]]
                    /\ pc'[p] = "idle"
                       => (inventory' = inventory /\ ret' # Nil /\ ret' # NoRet)
                    /\ op[p].kind \in {"AddStock", "RemoveStock"}
                       => \A j \in Rows : inventory'[j].reserved = inventory[j].reserved
                    /\ op[p].kind \in {"ReserveStock", "UnreserveStock"}
                       => \A j \in Rows : inventory'[j].quantity = inventory[j].quantity
          /\ (pc[p] # "update" /\ pc'[p] # pc[p]) => inventory' = inventory
      ]_vars

\* C31 witness: after a RemoveStock was applied, the conditional update of a
\* ReserveStock that had passed its check changed no row of the item, which
\* is still there.
C31_Witness ==
    /\ ret = Wrap("failed to reserve stock", ErrZeroRows)
    /\ \E id \in Rows : sums[id].remove > 0

\* no two product rows with one SKU, no two inventory rows of one product
UniqueSkus ==
    /\ \A i, j \in products : skus[i] = skus[j] => i = j
    /\ \A i, j \in Rows : inventory[i].product_id = inventory[j].product_id => i = j

\* C32: no two Products in the store ever share a SKU and no Product has
\* more than one InventoryItem; the insert of a CreateProduct whose SKU is
\* taken by then (also by a creation racing with it) fails, the call returns
\* an error and no Product, InventoryItem or Transaction has been written.
C32_SkuUnique ==
    /\ [](UniqueSkus)
    /\ [][\A a \in Admins :
             ( /\ adm[a].pc = "cp_product"
               /\ adm'[a].pc # "cp_product"
               /\ \E j \in products : skus[j] = adm[a].product.sku )
             => /\ adm'[a].pc = "idle"
                /\ ret' # Nil /\ ret' # NoRet
                /\ products' = products /\ skus' = skus
                /\ inventory' = inventory /\ transactions' = transactions
         ]_vars

\* C32 witness: of two creations racing, one has inserted its product under
\* a new SKU and is still in progress, the other has just been refused.
C32_Witness ==
    /\ ret = Wrap("failed to create product", ErrCreateProductDuplicate)
    /\ \E b \in Admins :
          /\ adm[b].pc = "cp_inventory"
          /\ adm[b].product.sku = "SKU-1"
          /\ adm[b].productID \in products
          /\ skus[adm[b].productID] = "SKU-1"

RECURSIVE SumQuantities(_)
\* the sum of the quantities of the ledger entries txs
SumQuantities(txs) ==
    IF txs = <<>> THEN 0 ELSE Head(txs).quantity + SumQuantities(Tail(txs))

\* the total the item's Transactions of one type record, without the
\* INITIAL_STOCK entry
Recorded(id, type) ==
    SumQuantities(SelectSeq(transactions,
                            LAMBDA t : /\ t.inventory_id = id
                                       /\ t.type = type
                                       /\ t.reference # "INITIAL_STOCK"))

\* C33: the ledger never runs ahead of the balances: in every reachable
\* state, for every item, its non-initial IN Transactions sum to at most the
\* total added by applied AddStock updates, and likewise OUT for RemoveStock,
\* RESERVE for ReserveStock and UNRESERVE for UnreserveStock.
C33_LedgerNeverAhead ==
    \A id \in Rows :
        /\ Recorded(id, "IN") <= sums[id].add
        /\ Recorded(id, "OUT") <= sums[id].remove
        /\ Recorded(id, "RESERVE") <= sums[id].reserve
        /\ Recorded(id, "UNRESERVE") <= sums[id].unreserve

\* C33 witness: one operation has recorded its removal while an AddStock
\* whose update was applied has not inserted its Transaction yet.
C33_Witness ==
    \E id \in Rows :
        /\ Recorded(id, "OUT") > 0
        /\ Recorded(id, "IN") < sums[id].add
        /\ \E p \in Procs : pc[p] = "record" /\ op[p].kind = "AddStock"

\* no operation is in flight
Quiescent ==
    /\ \A p \in Procs : pc[p] = "idle"
    /\ \A a \in Admins : adm[a].pc = "idle"

\* the total the item's Transactions of one type record, the INITIAL_STOCK
\* entry included
Total(id, type) ==
    SumQuantities(SelectSeq(transactions,
                            LAMBDA t : t.inventory_id = id /\ t.type = type))

\* C34: in every quiescent state of a run in which no Transaction insert
\* failed, for every item the IN quantities (INITIAL_STOCK included) minus
\* the OUT quantities equal its quantity and the RESERVE minus the UNRESERVE
\* quantities equal its reserved, whatever the interleaving was.
C34_QuiescentLedgerBalances ==
    (Quiescent /\ \A id \in DOMAIN unrecorded : unrecorded[id] = 0)
    => \A id \in Rows :
          /\ Total(id, "IN") - Total(id, "OUT") = inventory[id].quantity
          /\ Total(id, "RESERVE") - Total(id, "UNRESERVE") = inventory[id].reserved

\* C34 witness: an AddStock and a RemoveStock on one item have both returned
\* success, no insert has failed and nothing is in flight.
C34_Witness ==
    /\ Quiescent
    /\ okReturns = 2
    /\ \E id \in Rows :
          /\ unrecorded[id] = 0
          /\ Recorded(id, "IN") > 0
          /\ Recorded(id, "OUT") > 0

\* the stock operation o run alone on the rows inv, every store access
\* succeeding: the rows it leaves and the error it returns before its insert
Sequential(inv, o) ==
    LET r == GetByProductID(inv, o.productID)
        c == PreCheck(o.kind, r.item, o.quantity)
        d == Deltas(o.kind, o.quantity)
        u == UpdateQuantity(inv, r.item.id, d[1], d[2])
    IN  IF r.err # Nil THEN [inventory |-> inv, err |-> Wrap(GetInventoryFailedMsg, r.err)]
        ELSE IF c # Nil THEN [inventory |-> inv, err |-> c]
        ELSE IF u.err # Nil
        THEN [inventory |-> inv, err |-> Wrap(UpdateFailedMsg(o.kind), u.err)]
        ELSE [inventory |-> u.inventory, err |-> Nil]

\* C35: outcomes are linearizable per item: a call rejected by its check is
\* rejected in the step of its one read, against the (quantity, reserved)
\* pair the item has in that step; a call rejected by the store is rejected
\* in the step of its update, where the operation run alone on the rows as
\* they are then is rejected too; a successful call takes effect in the one
\* step of its update, with the effect the operation run alone has then; no
\* other step of a call changes a row.  Ordering the calls by these steps
\* gives the sequential run with the same outcomes.
C35_Linearizable ==
    [][\A p \in Procs :
          LET alone == Sequential(inventory, op[p])
          IN  /\ (pc[p] = "read" /\ pc'[p] = "idle")
                 => /\ ret' = alone.err
                    /\ ret' # Nil
                    /\ inventory' = inventory
              /\ (pc[p] = "update" /\ pc'[p] = "record")
                 => /\ alone.err = Nil
                    /\ inventory' = alone.inventory
              /\ ( /\ pc[p] = "update" /\ pc'[p] = "idle"
                   /\ ret' # Wrap(UpdateFailedMsg(op[p].kind), ErrExecUpdateFailed) )
                 => /\ alone.err # Nil
                    /\ inventory' = inventory
              /\ (pc[p] = "read" /\ pc'[p] = "update") => inventory' = inventory
              /\ (pc[p] = "record" /\ pc'[p] = "idle") => inventory' = inventory
      ]_vars

\* C35 witness: a RemoveStock that had passed its check on an earlier read
\* has just been rejected by the store, after a concurrent ReserveStock took
\* the quantity it had seen available.
C35_Witness ==
    /\ ret = Wrap("failed to update quantity", ErrZeroRows)
    /\ \E id \in Rows :
          /\ sums[id].remove = 0
          /\ inventory[id].quantity > 0
          /\ inventory[id].reserved = inventory[id].quantity
    /\ \E p \in Procs : pc[p] = "record" /\ op[p].kind = "ReserveStock"

\* C36: when the operations run one at a time, an operation that its check
\* admitted is about to update the very row the check read; the guard of
\* the store's UPDATE then holds on that row, so the store does not reject
\* it, and the mock repository of the tests, which adds the deltas without
\* any guard, leaves the same row as the store does, with
\* 0 <= reserved <= quantity.
C36_CheckAloneSuffices ==
    \A p \in Procs :
        pc[p] = "update"
        => LET d == Deltas(op[p].kind, op[p].quantity)
               real == UpdateQuantity(inventory, item[p].id, d[1], d[2])
               mock == MockUpdateQuantity(inventory, item[p].id, d[1], d[2])
           IN  /\ item[p].id \in Rows
               /\ inventory[item[p].id].quantity = item[p].quantity
               /\ inventory[item[p].id].reserved = item[p].reserved
               /\ real.err = Nil
               /\ mock.err = Nil
               /\ mock.inventory = real.inventory
               /\ 0 <= mock.inventory[item[p].id].reserved
               /\ mock.inventory[item[p].id].reserved
                     <= mock.inventory[item[p].id].quantity

\* C36 witness: after an earlier call succeeded, a ReserveStock that asks
\* for all that is available has been admitted by its check and is about to
\* update; one more unit would break reserved <= quantity.
C36_Witness ==
    /\ okReturns > 0
    /\ \E p \in Procs :
          /\ pc[p] = "update"
          /\ op[p].kind = "ReserveStock"
          /\ item[p].reserved > 0
          /\ op[p].quantity = item[p].quantity - item[p].reserved

\* C37: the floor of AvailableQuantity never engages: for every stored item
\* AvailableQuantity is quantity - reserved exactly, so for every demand n
\* the check `AvailableQuantity < n` rejects exactly when the store guard
\* `quantity - n - reserved >= 0` is false.
C37_FloorNeverEngages ==
    \A id \in Rows :
        /\ AvailableQuantity(inventory[id])
              = inventory[id].quantity - inventory[id].reserved
        /\ \A n \in 1..MaxQty :
              (AvailableQuantity(inventory[id]) < n)
              <=> ~(inventory[id].quantity - n - inventory[id].reserved >= 0)

\* C37 witness: a ReserveStock has been applied and returned and nothing is
\* left available: the item sits where the floor would begin.
C37_Witness ==
    /\ okReturns > 0
    /\ \E id \in Rows :
          /\ sums[id].reserve > 0
          /\ inventory[id].quantity > 0
          /\ inventory[id].quantity - inventory[id].reserved = 0

\* C38: stock operations are isolated per product: no store access of an
\* operation on product A changes the quantity or the reserved of the item
\* of another product, or the Transactions of another product, and every
\* Transaction it appends carries the id of A and the id of A's own
\* InventoryItem.
C38_IsolatedPerProduct ==
    [][\A p \in Procs :
          (pc[p] \in {"read", "update", "record"} /\ pc'[p] # pc[p])
          => /\ \A id \in Rows :
                   inventory[id].product_id # op[p].productID
                   => /\ id \in DOMAIN inventory'
                      /\ inventory'[id] = inventory[id]
             /\ \A B \in ProductIDs \ {op[p].productID} :
                   LedgerOf(B)' = LedgerOf(B)
             /\ Len(transactions') >= Len(transactions)
             /\ SubSeq(transactions', 1, Len(transactions)) = transactions
             /\ \A k \in (Len(transactions) + 1)..Len(transactions') :
                   /\ transactions'[k].product_id = op[p].productID
                   /\ transactions'[k].inventory_id \in Rows
                   /\ inventory[transactions'[k].inventory_id].product_id
                         = op[p].productID
      ]_vars

\* C38 witness: a RemoveStock on product "p2" has been applied and recorded
\* last, while product "p1" holds its item and its own Transactions.
C38_Witness ==
    /\ okReturns > 0
    /\ transactions # <<>>
    /\ transactions[Len(transactions)].product_id = "p2"
    /\ transactions[Len(transactions)].type = "OUT"
    /\ LedgerOf("p1") # <<>>
    /\ \E id \in Rows : inventory[id].product_id = "p1"

\* C39: referential integrity: every InventoryItem references a Product
\* that exists; every Transaction references an InventoryItem that exists
\* and a Product that exists, and that item is the item of that product.
C39_ReferentialIntegrity ==
    /\ \A id \in Rows : inventory[id].product_id \in products
    /\ \A k \in 1..Len(transactions) :
          /\ transactions[k].inventory_id \in Rows
          /\ transactions[k].product_id \in products
          /\ inventory[transactions[k].inventory_id].product_id
                = transactions[k].product_id

\* C39 witness: a product has been deleted, with its item and its
\* Transactions, and a product created since holds its item and its
\* INITIAL_STOCK Transaction.
C39_Witness ==
    /\ deleted # {}
    /\ created > 0
    /\ \E k \in 1..Len(transactions) :
          /\ transactions[k].reference = "INITIAL_STOCK"
          /\ transactions[k].product_id \notin deleted
          /\ transactions[k].product_id # "p1"

====
